---- MODULE Spec2Model ----
(***************************************************************************)
(* Sweedle backend: the job queue (core/queue.py), the background worker   *)
(* that drives it (core/worker.py) and the WebSocket progress hub          *)
(* (core/websocket_manager.py, websocket/router.py).                       *)
(*                                                                         *)
(* Everything runs on one asyncio event loop, so a step of the model is    *)
(* the code a coroutine runs between two points where it really suspends.  *)
(* Acquiring a free asyncio.Lock, getting from a non-empty asyncio queue   *)
(* and putting into a non-full one do not suspend.                         *)
(***************************************************************************)
EXTENDS Integers, Sequences, FiniteSets, TLC

\* ------------------------------------------------------------------ bounds
NJobs == 3          \* job ids 1..NJobs
MaxSize == 3        \* JobQueue(max_size) is constructed with 1 or MaxSize
MaxTime == 1        \* the wall clock is read as 0..MaxTime
MaxCompletes == 3   \* number of effective complete() calls explored
NConns == 2         \* WebSocket objects 1..NConns
NTopics == 2        \* job ids clients subscribe to, 1..NTopics
MaxInbox == 1       \* client messages buffered for an endpoint
NAssets == 2        \* rows 1..NAssets of the assets table

\* ------------------------------------------------------- program constants
HIGH == 0
NORMAL == 1
LOW == 2
HandoffCap == 2     \* asyncio.Queue(maxsize=2)
NoJob == 0          \* Optional[Job] = None
TextureGb == 18     \* freed_gb = 18.0: what offloading the texture pipeline frees
ShapeGb == 10       \* "Shape needs ~10GB": what unloading the shape pipeline frees

JobIds == 1..NJobs
Priorities == {HIGH, NORMAL, LOW}
None == "None"
\* started_at and completed_at are written and never read by the queue or
\* the worker: the model keeps whether each is unset (None) or holds a
\* reading of the clock.  created_at is compared by Job.__lt__ and is kept
\* as the reading itself.
Stamped == "utcnow"
\* the two shapes of a complete() call: complete(id, result=r) and
\* complete(id, error=e)
CompleteArgs == {<<"res", None>>, <<None, "err">>}
\* what _process_job passes after a handler: complete(id, result=result),
\* complete(id, error=error), complete(id, error=str(e)); str(e) can be ""
HandlerOutcomes == {<<"res", None>>, <<None, "err">>, <<None, "">>}
\* Job.progress is a float in 0.0..1.0; the model keeps it in hundredths.
\* The update_progress(job.id, progress, stage) calls a progress_callback
\* makes while a handler runs:
HandlerProgressCalls == {<<50, "stage">>}

VARIABLES
    max_size,         \* JobQueue._max_size, the maxsize of the priority queue
    jobs,             \* JobQueue._jobs: id -> Job
    heap,             \* JobQueue._queue._queue: the heapq list, of job ids
    unfinished,       \* JobQueue._queue._unfinished_tasks
    putters,          \* JobQueue._queue._putters: suspended put() calls, FIFO
    put_ready,        \* put() calls whose future was resolved, not yet resumed
    current_job,      \* JobQueue._current_job (id, or NoJob)
    locked,           \* JobQueue._lock is held
    completed_count,  \* JobQueue._completed_count
    failed_count,     \* JobQueue._failed_count
    clock,            \* last value datetime.utcnow() returned to Job()
    dq_pc,            \* where the caller of dequeue() is
    dq_job,           \* job popped by an inner dequeue() that waits for the lock
    ret,              \* history: the last call and what it reported
    overlap,          \* BackgroundWorker._use_preprocessing_overlap
    running,          \* BackgroundWorker._running
    pre_pc,           \* where _preprocessing_loop is
    pre_job,          \* the job _preprocessing_loop holds
    handoff,          \* BackgroundWorker._preprocessing_queue
    proc_pc,          \* where _process_loop is
    proc_job,         \* the job _process_loop holds
    pre_sent,         \* history: messages _preprocessing_loop sent in this iteration
    proc_sent,        \* history: messages _process_loop sent in this iteration
    stop_ret,         \* history: what the last stop() call did
    connections,      \* WebSocketManager._connections
    subscriptions,    \* WebSocketManager._subscriptions: job id -> connections
    ep_pc,            \* per WebSocket: where websocket_progress_endpoint is
    alive,            \* per WebSocket: the client's end is open, sends succeed
    inbox,            \* per WebSocket: client messages not yet received
    bc_pc,            \* a broadcast / send_to_job in progress, or "idle"
    bc_todo,          \* connections of its copy it has not sent to yet
    bc_failed,        \* its `disconnected` list
    bc_copy,          \* history: the copy the last broadcast / send_to_job took
    bc_log,           \* history: its send_text calls, <<connection, delivered>>
    bc_job,           \* history: the job_id of that send_to_job; NoJob: broadcast
    wf_stage,         \* per asset: the stored Asset.workflow_stage
    wf_sent,          \* history: the workflow updates handed to the hub
    wf_ret,           \* history: the last WorkflowService call and its outcome
    shape_pipeline,   \* Hunyuan3DPipeline._shape_pipeline: None, or where it is
    texture_pipeline, \* Hunyuan3DPipeline._texture_pipeline: None, or where it is
    initialized,      \* Hunyuan3DPipeline._initialized
    shape_pipeline_deleted, \* Hunyuan3DPipeline._shape_pipeline_deleted
    gen_pc,           \* where a generate() call is
    gen_unloaded,     \* its local shape_unloaded
    gen_gc,           \* its local name gc is bound (line 370 ran)
    pl_ret            \* history: the last PipelineService call and its outcome

qvars == <<max_size, jobs, heap, unfinished, putters, put_ready, current_job, locked,
           completed_count, failed_count, clock, dq_pc, dq_job, ret>>

wvars == <<overlap, running, pre_pc, pre_job, handoff, proc_pc, proc_job,
           pre_sent, proc_sent, stop_ret>>

hvars == <<connections, subscriptions, ep_pc, alive, inbox, bc_pc, bc_todo,
           bc_failed, bc_copy, bc_log, bc_job>>

fvars == <<wf_stage, wf_sent, wf_ret>>

pvars == <<shape_pipeline, texture_pipeline, initialized, shape_pipeline_deleted,
           gen_pc, gen_unloaded, gen_gc, pl_ret>>

vars == <<qvars, wvars, hvars, fvars, pvars>>

\* ------------------------------------------------------------ environment
\* datetime.utcnow(): not below the previous reading; two readings can agree.
UtcNow == {clock, IF clock < MaxTime THEN clock + 1 ELSE clock}

\* ------------------------------------------------------------- Job, heapq
\* Job(id, job_type, payload, priority) with the dataclass defaults
NewJob(payload, priority, now) ==
    [payload |-> payload, priority |-> priority, created_at |-> now,
     started_at |-> None, completed_at |-> None, status |-> "pending",
     progress |-> 0, stage |-> "pending", error |-> None, result |-> None]

\* Job.__lt__, on the jobs of registry js
JobLt(js, a, b) ==
    IF js[a].priority # js[b].priority
    THEN js[a].priority < js[b].priority
    ELSE js[a].created_at < js[b].created_at

\* heapq._siftdown(heap, startpos, pos), positions 0-based as in heapq
RECURSIVE SiftDownLoop(_, _, _, _, _)
SiftDownLoop(js, h, startpos, pos, newitem) ==
    IF pos > startpos
    THEN LET parentpos == (pos - 1) \div 2
             parent == h[parentpos + 1]
         IN IF JobLt(js, newitem, parent)
            THEN SiftDownLoop(js, [h EXCEPT ![pos + 1] = parent],
                              startpos, parentpos, newitem)
            ELSE [h EXCEPT ![pos + 1] = newitem]
    ELSE [h EXCEPT ![pos + 1] = newitem]

SiftDown(js, h, startpos, pos) ==
    SiftDownLoop(js, h, startpos, pos, h[pos + 1])

\* heapq._siftup(heap, pos)
RECURSIVE SiftUpLoop(_, _, _, _, _)
SiftUpLoop(js, h, startpos, pos, newitem) ==
    LET endpos == Len(h)
        childpos == 2 * pos + 1
    IN IF childpos < endpos
       THEN LET rightpos == childpos + 1
                c == IF rightpos < endpos /\ ~JobLt(js, h[childpos + 1], h[rightpos + 1])
                     THEN rightpos ELSE childpos
            IN SiftUpLoop(js, [h EXCEPT ![pos + 1] = h[c + 1]],
                          startpos, c, newitem)
       ELSE SiftDown(js, [h EXCEPT ![pos + 1] = newitem], startpos, pos)

\* heapq.heappush
HeapPush(js, h, item) ==
    SiftDown(js, Append(h, item), 0, Len(h))

\* heapq.heappop: <<item, heap after>>
HeapPop(js, h) ==
    LET lastelt == h[Len(h)]
        rest == SubSeq(h, 1, Len(h) - 1)
    IN IF rest # <<>>
       THEN <<rest[1], SiftUpLoop(js, [rest EXCEPT ![1] = lastelt], 0, 0, lastelt)>>
       ELSE <<lastelt, rest>>

\* asyncio.Queue.full()
QueueFull == Len(heap) >= max_size

\* asyncio.Queue._wakeup_next(self._putters): <<putters, put_ready>> after
WakePutter(ps, ready) ==
    IF ps # <<>> THEN <<Tail(ps), ready \cup {Head(ps)}>> ELSE <<ps, ready>>

\* asyncio.Queue.task_done(): the counter after, or -1 where it raises
\* ValueError("task_done() called too many times")
TaskDone(n) == IF n <= 0 THEN -1 ELSE n - 1

Registered == DOMAIN jobs
Put(f, k, v) == [x \in (DOMAIN f) \cup {k} |-> IF x = k THEN v ELSE f[x]]

\* ---------------------------------------------------------------- enqueue
\* a faulty enqueue, without `if job_id in self._jobs: raise ValueError`:
\* the new Job replaces the registered one and is put
EnqueueNoDuplicateCheck(id, payload, priority) ==
    /\ ~locked
    /\ \E now \in UtcNow :
        /\ clock' = now
        /\ LET js == Put(jobs, id, NewJob(payload, priority, now)) IN
           /\ jobs' = js
           /\ IF QueueFull
              THEN /\ putters' = Append(putters, id)
                   /\ ret' = [op |-> "enqueue", id |-> id, out |-> "suspended"]
                   /\ UNCHANGED <<heap, unfinished>>
              ELSE /\ heap' = HeapPush(js, heap, id)
                   /\ unfinished' = unfinished + 1
                   /\ ret' = [op |-> "enqueue", id |-> id, out |-> "job"]
                   /\ UNCHANGED putters
        /\ UNCHANGED put_ready
    /\ UNCHANGED <<max_size, current_job, locked, completed_count, failed_count,
                   dq_pc, dq_job>>

\* JobQueue.enqueue, up to its return or its suspension in Queue.put
Enqueue(id, payload, priority) ==
    /\ ~locked
    /\ \E now \in UtcNow :
        /\ clock' = now
        /\ IF id \in Registered
           THEN /\ ret' = [op |-> "enqueue", id |-> id, out |-> "ValueError"]
                /\ UNCHANGED <<jobs, heap, unfinished, putters, put_ready>>
           ELSE LET js == Put(jobs, id, NewJob(payload, priority, now)) IN
                /\ jobs' = js
                /\ IF QueueFull
                   THEN /\ putters' = Append(putters, id)
                        /\ ret' = [op |-> "enqueue", id |-> id, out |-> "suspended"]
                        /\ UNCHANGED <<heap, unfinished>>
                   ELSE /\ heap' = HeapPush(js, heap, id)
                        /\ unfinished' = unfinished + 1
                        /\ ret' = [op |-> "enqueue", id |-> id, out |-> "job"]
                        /\ UNCHANGED putters
                /\ UNCHANGED put_ready
    /\ UNCHANGED <<max_size, current_job, locked, completed_count, failed_count,
                   dq_pc, dq_job>>

\* Queue.put resumed after a get() resolved its future: `while self.full()`
\* is evaluated again
EnqueueResume(id) ==
    /\ id \in put_ready
    /\ put_ready' = put_ready \ {id}
    /\ IF QueueFull
       THEN /\ putters' = Append(putters, id)
            /\ ret' = [op |-> "put", id |-> id, out |-> "suspended"]
            /\ UNCHANGED <<heap, unfinished>>
       ELSE /\ heap' = HeapPush(jobs, heap, id)
            /\ unfinished' = unfinished + 1
            /\ ret' = [op |-> "put", id |-> id, out |-> "job"]
            /\ UNCHANGED putters
    /\ UNCHANGED <<max_size, jobs, current_job, locked, completed_count,
                   failed_count, clock, dq_pc, dq_job>>

\* ---------------------------------------------------------------- dequeue
\* a faulty dequeue, without `if job.status == JobStatus.CANCELLED`: whatever
\* is popped is marked Processing and returned
DequeuePopNoCancelledCheck(after_pc) ==
    /\ dq_pc = "call"
    /\ ~locked
    /\ heap # <<>>
    /\ LET p1 == HeapPop(jobs, heap)
           j == p1[1]
           w1 == WakePutter(putters, put_ready)
       IN /\ heap' = p1[2]
          /\ putters' = w1[1]
          /\ put_ready' = w1[2]
          /\ jobs' = [jobs EXCEPT ![j].status = "processing",
                                  ![j].started_at = Stamped]
          /\ current_job' = j
          /\ dq_pc' = after_pc
          /\ ret' = [op |-> "dequeue", id |-> j, out |-> "job"]
    /\ UNCHANGED <<max_size, unfinished, locked, dq_job, clock, completed_count,
                   failed_count>>

\* JobQueue.dequeue from its call, or from the point where Queue.get
\* resumes, to its return; after_pc is where the caller goes with a job.
\* A popped job that is Cancelled is dropped and dequeue() is awaited again
\* with the lock still held: the inner call pops the next job if there is
\* one and then waits for the lock ("stuck"), or waits in Queue.get
\* ("retry").
DequeuePop(after_pc) ==
    /\ dq_pc = "call"
    /\ ~locked
    /\ heap # <<>>
    /\ LET p1 == HeapPop(jobs, heap)
           j == p1[1]
           w1 == WakePutter(putters, put_ready)
       IN IF jobs[j].status = "cancelled"
          THEN IF TaskDone(unfinished) < 0
               THEN \* task_done() raises inside the lock; the error leaves dequeue
                    /\ heap' = p1[2]
                    /\ putters' = w1[1]
                    /\ put_ready' = w1[2]
                    /\ ret' = [op |-> "dequeue", id |-> j, out |-> "ValueError"]
                    /\ UNCHANGED <<jobs, unfinished, current_job, locked, clock,
                                   dq_pc, dq_job>>
               ELSE /\ unfinished' = TaskDone(unfinished)
                    /\ locked' = TRUE
                    /\ ret' = [op |-> "dequeue", id |-> j, out |-> "retry"]
                    /\ IF p1[2] # <<>>
                       THEN LET p2 == HeapPop(jobs, p1[2])
                                w2 == WakePutter(w1[1], w1[2])
                            IN /\ heap' = p2[2]
                               /\ putters' = w2[1]
                               /\ put_ready' = w2[2]
                               /\ dq_pc' = "stuck"
                               /\ dq_job' = p2[1]
                       ELSE /\ heap' = p1[2]
                            /\ putters' = w1[1]
                            /\ put_ready' = w1[2]
                            /\ dq_pc' = "retry"
                            /\ UNCHANGED dq_job
                    /\ UNCHANGED <<jobs, current_job, clock>>
          ELSE /\ heap' = p1[2]
               /\ putters' = w1[1]
               /\ put_ready' = w1[2]
               /\ jobs' = [jobs EXCEPT ![j].status = "processing",
                                       ![j].started_at = Stamped]
               /\ current_job' = j
               /\ dq_pc' = after_pc
               /\ ret' = [op |-> "dequeue", id |-> j, out |-> "job"]
               /\ UNCHANGED <<unfinished, locked, dq_job, clock>>
    /\ UNCHANGED <<max_size, completed_count, failed_count>>

\* the inner dequeue(), suspended in Queue.get with the lock held, resumes
DequeueRetryPop ==
    /\ dq_pc = "retry"
    /\ heap # <<>>
    /\ LET p2 == HeapPop(jobs, heap)
           w2 == WakePutter(putters, put_ready)
       IN /\ heap' = p2[2]
          /\ putters' = w2[1]
          /\ put_ready' = w2[2]
          /\ dq_pc' = "stuck"
          /\ dq_job' = p2[1]
          /\ ret' = [op |-> "dequeue", id |-> p2[1], out |-> "retry"]
    /\ UNCHANGED <<max_size, jobs, unfinished, current_job, locked,
                   completed_count, failed_count, clock>>

\* the task awaiting dequeue() is cancelled: `except asyncio.CancelledError:
\* return None` in every frame, and the lock is released on the way out
DequeueCancelled(after_pc) ==
    /\ dq_pc \in {"call", "retry", "stuck"}
    /\ dq_pc' = after_pc
    /\ dq_job' = NoJob
    /\ locked' = FALSE
    /\ ret' = [op |-> "dequeue", id |-> NoJob, out |-> "None"]
    /\ UNCHANGED <<max_size, jobs, heap, unfinished, putters, put_ready,
                   current_job, completed_count, failed_count, clock>>

\* --------------------------------------------------------------- complete
\* JobQueue.complete
Complete(id, result, error) ==
    /\ ~locked
    /\ IF id \notin Registered
       THEN /\ ret' = [op |-> "complete", id |-> id, out |-> "unknown"]
            /\ UNCHANGED <<jobs, unfinished, current_job, completed_count,
                           failed_count, clock>>
       ELSE /\ completed_count + failed_count < MaxCompletes
            /\ UNCHANGED clock
            /\ jobs' = [jobs EXCEPT
                      ![id].completed_at = Stamped,
                      ![id].result = result,
                      ![id].error = error,
                      ![id].progress = IF error \in {None, ""} THEN 100
                                       ELSE jobs[id].progress,
                      ![id].status = IF error \in {None, ""} THEN "completed"
                                     ELSE "failed"]
            /\ IF error \in {None, ""}
               THEN /\ completed_count' = completed_count + 1
                    /\ UNCHANGED failed_count
               ELSE /\ failed_count' = failed_count + 1
                    /\ UNCHANGED completed_count
            /\ current_job' = IF current_job # NoJob /\ current_job = id
                              THEN NoJob ELSE current_job
            /\ IF TaskDone(unfinished) < 0
               THEN /\ ret' = [op |-> "complete", id |-> id, out |-> "ValueError"]
                    /\ UNCHANGED unfinished
               ELSE /\ ret' = [op |-> "complete", id |-> id, out |-> "ok"]
                    /\ unfinished' = TaskDone(unfinished)
    /\ UNCHANGED <<max_size, heap, putters, put_ready, locked, dq_pc, dq_job>>

\* -------------------------------------------------------- update_progress
\* min(max(progress, 0.0), 1.0), in hundredths
Clamp(progress) ==
    IF progress < 0 THEN 0 ELSE IF progress > 100 THEN 100 ELSE progress

\* JobQueue.update_progress
UpdateProgress(id, progress, stage) ==
    /\ ~locked
    /\ IF id \in Registered
       THEN jobs' = [jobs EXCEPT
                ![id].progress = Clamp(progress),
                ![id].stage = IF stage # "" THEN stage ELSE jobs[id].stage]
       ELSE UNCHANGED jobs
    /\ ret' = [op |-> "update_progress", id |-> id, out |-> "ok"]
    /\ UNCHANGED <<max_size, heap, unfinished, putters, put_ready, current_job,
                   locked, completed_count, failed_count, clock, dq_pc, dq_job>>

\* ----------------------------------------------------------------- cancel
\* a faulty cancel, without `if job.status != JobStatus.PENDING: return False`
CancelNoStatusCheck(id) ==
    /\ ~locked
    /\ IF id \notin Registered
       THEN /\ ret' = [op |-> "cancel", id |-> id, out |-> "False"]
            /\ UNCHANGED <<jobs, clock>>
       ELSE /\ jobs' = [jobs EXCEPT ![id].status = "cancelled",
                                    ![id].completed_at = Stamped,
                                    ![id].error = "Cancelled by user"]
            /\ ret' = [op |-> "cancel", id |-> id, out |-> "True"]
            /\ UNCHANGED clock
    /\ UNCHANGED <<max_size, heap, unfinished, putters, put_ready, current_job,
                   locked, completed_count, failed_count, dq_pc, dq_job>>

\* JobQueue.cancel
Cancel(id) ==
    /\ ~locked
    /\ IF id \notin Registered
       THEN /\ ret' = [op |-> "cancel", id |-> id, out |-> "False"]
            /\ UNCHANGED <<jobs, clock>>
       ELSE IF jobs[id].status # "pending"
       THEN /\ ret' = [op |-> "cancel", id |-> id, out |-> "False"]
            /\ UNCHANGED <<jobs, clock>>
       ELSE /\ jobs' = [jobs EXCEPT ![id].status = "cancelled",
                                    ![id].completed_at = Stamped,
                                    ![id].error = "Cancelled by user"]
            /\ ret' = [op |-> "cancel", id |-> id, out |-> "True"]
            /\ UNCHANGED clock
    /\ UNCHANGED <<max_size, heap, unfinished, putters, put_ready, current_job,
                   locked, completed_count, failed_count, dq_pc, dq_job>>

\* ------------------------------------------------------------- get_status
CountStatus(st) == Cardinality({j \in Registered : jobs[j].status = st})

\* JobQueue.get_status
GetStatus ==
    [queue_size |-> Len(heap),
     current_job_id |-> current_job,
     pending_count |-> CountStatus("pending"),
     processing_count |-> IF current_job # NoJob THEN 1 ELSE 0,
     completed_count |-> completed_count,
     failed_count |-> failed_count,
     total_jobs |-> Cardinality(Registered)]

\* ------------------------------------------------- the queue and its callers
QueueInit ==
    /\ max_size \in {1, MaxSize}
    /\ jobs = <<>>
    /\ heap = <<>>
    /\ unfinished = 0
    /\ putters = <<>>
    /\ put_ready = {}
    /\ current_job = NoJob
    /\ locked = FALSE
    /\ completed_count = 0
    /\ failed_count = 0
    /\ clock = 0
    /\ dq_pc = "call"
    /\ dq_job = NoJob
    /\ ret = [op |-> "init", id |-> NoJob, out |-> "None"]

\* no BackgroundWorker
NoWorker ==
    /\ overlap = FALSE
    /\ running = FALSE
    /\ pre_pc = "off"
    /\ pre_job = NoJob
    /\ handoff = <<>>
    /\ proc_pc = "off"
    /\ proc_job = NoJob
    /\ pre_sent = <<>>
    /\ proc_sent = <<>>
    /\ stop_ret = None

\* WebSocketManager.__init__; no client has connected
HubInit ==
    /\ connections = {}
    /\ subscriptions = <<>>
    /\ ep_pc = [c \in 1..NConns |-> "new"]
    /\ alive = [c \in 1..NConns |-> TRUE]
    /\ inbox = [c \in 1..NConns |-> <<>>]
    /\ bc_pc = "idle"
    /\ bc_todo = {}
    /\ bc_failed = {}
    /\ bc_copy = {}
    /\ bc_log = <<>>
    /\ bc_job = NoJob

\* no WorkflowService call yet; the assets table stores no workflow stage
WorkflowInit ==
    /\ wf_stage = [a \in 1..NAssets |-> None]
    /\ wf_sent = None
    /\ wf_ret = [op |-> "init", asset |-> 0, before |-> None, out |-> None,
                 value |-> None]

\* Hunyuan3DPipeline.__init__ (get_pipeline), PipelineService.__init__
PipelineInit ==
    /\ shape_pipeline = None
    /\ texture_pipeline = None
    /\ initialized = FALSE
    /\ shape_pipeline_deleted = FALSE
    /\ gen_pc = "idle"
    /\ gen_unloaded = FALSE
    /\ gen_gc = FALSE
    /\ pl_ret = [op |-> "init", stage |-> None, prev |-> None, prev2 |-> None,
                 tick |-> 0, raised |-> FALSE, success |-> FALSE, freed_gb |-> 0,
                 loaded_pipeline |-> None, evicted |-> {}, loaded |-> {}]

QInit == QueueInit /\ NoWorker /\ HubInit /\ WorkflowInit /\ PipelineInit

\* Job ids are opaque to the queue (only compared for equality), so a new
\* job takes the next unused id: ids number the jobs in the order of their
\* enqueue() calls.  A call with a registered id is a duplicate; payloads
\* are opaque too, a duplicate call carries another one than the first.
EnqueueIds == Registered \cup ({Cardinality(Registered) + 1} \cap JobIds)

Processing == {j \in Registered : jobs[j].status = "processing"}

\* JobQueue under callers that may enqueue, dequeue and cancel at any time
\* and complete the jobs that dequeue returned
QNext ==
    \/ \E id \in EnqueueIds, pr \in Priorities :
           /\ Enqueue(id, IF id \in Registered THEN "p2" ELSE "p1", pr)
           /\ UNCHANGED <<wvars, hvars, fvars, pvars>>
    \/ \E id \in JobIds : EnqueueResume(id) /\ UNCHANGED <<wvars, hvars, fvars, pvars>>
    \/ DequeuePop("call") /\ UNCHANGED <<wvars, hvars, fvars, pvars>>
    \/ DequeueRetryPop /\ UNCHANGED <<wvars, hvars, fvars, pvars>>
    \/ DequeueCancelled("call") /\ UNCHANGED <<wvars, hvars, fvars, pvars>>
    \/ \E id \in Processing, a \in CompleteArgs :
           Complete(id, a[1], a[2]) /\ UNCHANGED <<wvars, hvars, fvars, pvars>>
    \/ \E id \in JobIds : Cancel(id) /\ UNCHANGED <<wvars, hvars, fvars, pvars>>

SpecQueue == QInit /\ [][QNext]_vars

\* JobQueue(max_size = MaxSize) under callers that may also complete any id
\* at any time, any number of times; every job is enqueued at NORMAL
CInit == QInit /\ max_size = MaxSize

CNext ==
    \/ \E id \in EnqueueIds :
           /\ Enqueue(id, IF id \in Registered THEN "p2" ELSE "p1", NORMAL)
           /\ UNCHANGED <<wvars, hvars, fvars, pvars>>
    \/ DequeuePop("call") /\ UNCHANGED <<wvars, hvars, fvars, pvars>>
    \/ \E id \in JobIds, a \in CompleteArgs :
           Complete(id, a[1], a[2]) /\ UNCHANGED <<wvars, hvars, fvars, pvars>>
    \/ \E id \in JobIds : Cancel(id) /\ UNCHANGED <<wvars, hvars, fvars, pvars>>

SpecComplete == CInit /\ [][CNext]_vars

\* ------------------------------------------------------- BackgroundWorker
\* The worker after start(): _process_loop runs and, with the overlap
\* enabled, _preprocessing_loop; the loop that calls JobQueue.dequeue is in
\* that call.
WInit ==
    /\ QueueInit
    /\ overlap \in BOOLEAN
    /\ running = TRUE
    /\ pre_pc = IF overlap THEN "dequeue" ELSE "off"
    /\ pre_job = NoJob
    /\ handoff = <<>>
    /\ proc_pc = "get"
    /\ proc_job = NoJob
    /\ pre_sent = <<>>
    /\ proc_sent = <<>>
    /\ stop_ret = None
    /\ HubInit
    /\ WorkflowInit
    /\ PipelineInit

\* enqueue(job_id, job_type, payload, priority) as the worker reads it: the
\* job's type and whether the payload has the key "image_path".  The
\* generation router enqueues "image_to_3d" with an image_path and
\* "add_texture" without one, the rigging router "rig_asset" without one;
\* "text_to_3d" is named by the worker alone.
ImageJob == [job_type |-> "image_to_3d", image_path |-> TRUE]

JobPayloads ==
    {ImageJob,
     [job_type |-> "add_texture", image_path |-> FALSE],
     [job_type |-> "rig_asset", image_path |-> FALSE],
     [job_type |-> "text_to_3d", image_path |-> FALSE],
     [job_type |-> "text_to_3d", image_path |-> TRUE]}

\* the job types BackgroundWorker has a handler method for
HandlerTypes == {"image_to_3d", "text_to_3d", "rig_asset"}

JobType(id) == jobs[id].payload.job_type

\* the messages the worker hands to WebSocketManager
Progress(id, status) == <<"progress", id, status>>

AssetReady(id) == <<"asset_ready", id, None>>

QueueStatus == <<"queue_status", NoJob, None>>

\* the error strings the worker passes to complete()
PreprocessingFailed == "Preprocessing failed"

NoImagePath == "Preprocessing failed: 'image_path'"

UnknownJobType == "Unknown job type"

NotImplemented == "Text-to-3D is not yet implemented"

\* the if / elif chain on job.job_type: _process_job_with_preprocessed with
\* the overlap, _process_job without it
Dispatch(job_type) ==
    CASE job_type = "image_to_3d" ->
             IF overlap THEN "_process_image_to_3d_with_preprocessed"
             ELSE "_process_image_to_3d"
      [] job_type = "text_to_3d" -> "_process_text_to_3d"
      [] job_type = "rig_asset" /\ ~overlap -> "_process_rig_asset"
      [] OTHER -> "ValueError"

\* what a handler hands back, as <<result, error>>: _process_text_to_3d
\* returns its failure dict, the `else` branch raises ValueError
Outcomes(handler) ==
    CASE handler = "ValueError" -> {<<None, UnknownJobType>>}
      [] handler = "_process_text_to_3d" -> {<<None, NotImplemented>>}
      [] OTHER -> HandlerOutcomes

DispatchOutcomes ==
    HandlerOutcomes \cup {<<None, UnknownJobType>>, <<None, NotImplemented>>}

\* _preprocessing_loop: `job = await self._queue.dequeue()`
PreDequeue ==
    /\ overlap
    /\ pre_pc = "dequeue"
    /\ DequeuePop("busy")
    /\ pre_pc' = IF dq_pc' = "busy" THEN "prep" ELSE "dequeue"
    /\ pre_job' = IF dq_pc' = "busy" THEN current_job' ELSE pre_job
    /\ UNCHANGED <<overlap, running, handoff, proc_pc, proc_job,
                   pre_sent, proc_sent, stop_ret, hvars, fvars, pvars>>

\* _preprocessing_loop: payload["image_path"] is there, send_progress and
\* prepare_image succeed and the prepared job is put into the bounded
\* _preprocessing_queue; the loop goes on to its next dequeue unless the put
\* suspends or the worker is stopped
PrepOk ==
    /\ pre_pc = "prep"
    /\ jobs[pre_job].payload.image_path
    /\ IF Len(handoff) < HandoffCap
       THEN /\ handoff' = Append(handoff, pre_job)
            /\ pre_job' = NoJob
            /\ pre_pc' = IF running THEN "dequeue" ELSE "done"
            /\ dq_pc' = IF running THEN "call" ELSE dq_pc
            /\ pre_sent' = <<>>
       ELSE /\ pre_pc' = "put"
            /\ pre_sent' = <<Progress(pre_job, "processing")>>
            /\ UNCHANGED <<handoff, pre_job, dq_pc>>
    /\ UNCHANGED <<max_size, jobs, heap, unfinished, putters, put_ready,
                   current_job, locked, completed_count, failed_count, clock,
                   dq_job, ret, overlap, running, proc_pc, proc_job,
                   proc_sent, stop_ret, hvars, fvars, pvars>>

\* _preprocessing_loop: the suspended put resumes when there is room
PrePutResume ==
    /\ pre_pc = "put"
    /\ Len(handoff) < HandoffCap
    /\ handoff' = Append(handoff, pre_job)
    /\ pre_job' = NoJob
    /\ pre_pc' = IF running THEN "dequeue" ELSE "done"
    /\ dq_pc' = IF running THEN "call" ELSE dq_pc
    /\ pre_sent' = <<>>
    /\ UNCHANGED <<max_size, jobs, heap, unfinished, putters, put_ready,
                   current_job, locked, completed_count, failed_count, clock,
                   dq_job, ret, overlap, running, proc_pc, proc_job,
                   proc_sent, stop_ret, hvars, fvars, pvars>>

\* _preprocessing_loop: `except Exception`, with a job: payload["image_path"]
\* raised KeyError before any message, or prepare_image raised after the
\* first progress message; complete(job.id, error="Preprocessing failed:
\* ..."), then the failed progress message and asyncio.sleep(1)
PrepFail ==
    /\ pre_pc = "prep"
    /\ Complete(pre_job, None,
                IF jobs[pre_job].payload.image_path THEN PreprocessingFailed
                ELSE NoImagePath)
    /\ pre_sent' =
           (IF jobs[pre_job].payload.image_path
            THEN <<Progress(pre_job, "processing")>> ELSE <<>>)
           \o <<Progress(pre_job, "failed")>>
    /\ pre_pc' = "sleep"
    /\ pre_job' = NoJob
    /\ UNCHANGED <<overlap, running, handoff, proc_pc, proc_job,
                   proc_sent, stop_ret, hvars, fvars, pvars>>

\* _preprocessing_loop: the sleep ends, `while self._running`
PreWake ==
    /\ pre_pc = "sleep"
    /\ pre_pc' = IF running THEN "dequeue" ELSE "done"
    /\ dq_pc' = IF running THEN "call" ELSE dq_pc
    /\ pre_sent' = <<>>
    /\ UNCHANGED <<max_size, jobs, heap, unfinished, putters, put_ready,
                   current_job, locked, completed_count, failed_count, clock,
                   dq_job, ret, overlap, running, pre_job, handoff, proc_pc,
                   proc_job, proc_sent, stop_ret,
                   hvars, fvars, pvars>>

\* _process_loop with the overlap: `await self._preprocessing_queue.get()`,
\* and _process_job_with_preprocessed to the handler it routes the job to
ProcGet ==
    /\ overlap
    /\ proc_pc = "get"
    /\ handoff # <<>>
    /\ proc_job' = Head(handoff)
    /\ handoff' = Tail(handoff)
    /\ proc_pc' = "run"
    /\ UNCHANGED <<qvars, overlap, running, pre_pc, pre_job,
                   pre_sent, proc_sent, stop_ret, hvars, fvars, pvars>>

\* _process_loop without the overlap: `job = await self._queue.dequeue()`,
\* and _process_job to the handler it routes the job to
ProcDequeue ==
    /\ ~overlap
    /\ proc_pc = "get"
    /\ DequeuePop("busy")
    /\ proc_pc' = IF dq_pc' = "busy" THEN "run" ELSE "get"
    /\ proc_job' = IF dq_pc' = "busy" THEN current_job' ELSE proc_job
    /\ UNCHANGED <<overlap, running, pre_pc, pre_job, handoff,
                   pre_sent, proc_sent, stop_ret, hvars, fvars, pvars>>

\* the inner dequeue() of the loop that dequeues resumes in Queue.get
WorkerRetryPop ==
    /\ DequeueRetryPop
    /\ UNCHANGED <<wvars, hvars, fvars, pvars>>

\* progress_callback scheduled by the thread of a handler that generates or
\* rigs: `await self._queue.update_progress(job.id, progress, stage)`
HandlerProgress(progress, stage) ==
    /\ proc_pc = "run"
    /\ Dispatch(JobType(proc_job)) \notin {"ValueError", "_process_text_to_3d"}
    /\ UpdateProgress(proc_job, progress, stage)
    /\ UNCHANGED <<wvars, hvars, fvars, pvars>>

\* a worker that goes on to its next job without completing this one
HandlerDoneNoComplete(result, error) ==
    /\ proc_pc = "run"
    /\ <<result, error>> \in Outcomes(Dispatch(JobType(proc_job)))
    /\ proc_sent' = <<QueueStatus>>
    /\ proc_pc' = "sent"
    /\ proc_job' = NoJob
    /\ UNCHANGED <<qvars, overlap, running, pre_pc, pre_job, handoff,
                   pre_sent, stop_ret, hvars, fvars, pvars>>

\* a worker whose send after the successful complete() raises into
\* `except Exception`, which completes the job again, with the error
HandlerDoneSendRaises(result, error) ==
    /\ proc_pc = "run"
    /\ <<result, error>> \in Outcomes(Dispatch(JobType(proc_job)))
    /\ Complete(proc_job, IF result # None THEN None ELSE result,
                IF result # None THEN "send failed" ELSE error)
    /\ proc_sent' =
           <<Progress(proc_job, "processing"),
             Progress(proc_job, IF result # None THEN "completed" ELSE "failed")>>
           \o (IF result # None THEN <<AssetReady(proc_job)>> ELSE <<>>)
           \o <<QueueStatus>>
    /\ proc_pc' = "sent"
    /\ proc_job' = NoJob
    /\ UNCHANGED <<overlap, running, pre_pc, pre_job, handoff,
                   pre_sent, stop_ret, hvars, fvars, pvars>>

\* _process_job / _process_job_with_preprocessed: the handler returned or
\* raised, the job is completed with its result or its error, and the
\* messages up to the queue status are sent: the first progress message,
\* "completed" and asset_ready where result["success"], else "failed"
HandlerDone(result, error) ==
    /\ proc_pc = "run"
    /\ <<result, error>> \in Outcomes(Dispatch(JobType(proc_job)))
    /\ Complete(proc_job, result, error)
    /\ proc_sent' =
           <<Progress(proc_job, "processing"),
             Progress(proc_job, IF result # None THEN "completed" ELSE "failed")>>
           \o (IF result # None THEN <<AssetReady(proc_job)>> ELSE <<>>)
           \o <<QueueStatus>>
    /\ proc_pc' = "sent"
    /\ proc_job' = NoJob
    /\ UNCHANGED <<overlap, running, pre_pc, pre_job, handoff,
                   pre_sent, stop_ret, hvars, fvars, pvars>>

\* _process_loop: `while self._running`
ProcLoop ==
    /\ proc_pc = "sent"
    /\ proc_pc' = IF running THEN "get" ELSE "done"
    /\ dq_pc' = IF running /\ ~overlap THEN "call" ELSE dq_pc
    /\ proc_sent' = <<>>
    /\ UNCHANGED <<max_size, jobs, heap, unfinished, putters, put_ready,
                   current_job, locked, completed_count, failed_count, clock,
                   dq_job, ret, overlap, running, pre_pc, pre_job, handoff,
                   proc_job, pre_sent, stop_ret,
                   hvars, fvars, pvars>>

\* stop(): `self._running = False`, the preprocessing task is cancelled and
\* awaited.  A task cancelled inside dequeue() gets None from it and leaves
\* its loop at `while self._running`; elsewhere CancelledError breaks the loop.
\* A loop that ended has no iteration and its message history is dropped.
StopPre ==
    /\ running
    /\ overlap
    /\ running' = FALSE
    /\ pre_pc' = "done"
    /\ IF pre_pc = "dequeue"
       THEN DequeueCancelled("busy")
       ELSE UNCHANGED qvars
    /\ pre_sent' = <<>>
    /\ UNCHANGED <<overlap, pre_job, handoff, proc_pc, proc_job,
                   proc_sent, stop_ret, hvars, fvars, pvars>>

\* a stop() that waits for the handler in flight instead of cancelling it
StopProcAwaitsHandler ==
    /\ IF overlap THEN ~running /\ pre_pc = "done" ELSE running
    /\ stop_ret = None
    /\ proc_pc # "run"
    /\ running' = FALSE
    /\ proc_pc' = "done"
    /\ IF ~overlap /\ proc_pc = "get"
       THEN DequeueCancelled("busy")
       ELSE UNCHANGED qvars
    /\ shape_pipeline' = None
    /\ texture_pipeline' = None
    /\ initialized' = FALSE
    /\ stop_ret' = "stopped"
    /\ proc_sent' = <<>>
    /\ UNCHANGED <<overlap, pre_pc, pre_job, handoff, proc_job,
                   pre_sent, hvars, fvars,
                   shape_pipeline_deleted, gen_pc, gen_unloaded, gen_gc, pl_ret>>

\* stop(): the main task, unless it has ended at `while self._running`, is
\* cancelled whatever it waits for, and awaited;
\* then the preprocessor and the pipeline are cleaned up
\* (Hunyuan3DPipeline.cleanup) and stop() returns
StopProc ==
    /\ IF overlap THEN ~running /\ pre_pc = "done" ELSE running
    /\ stop_ret = None
    /\ running' = FALSE
    /\ proc_pc' = "done"
    /\ IF ~overlap /\ proc_pc = "get"
       THEN DequeueCancelled("busy")
       ELSE UNCHANGED qvars
    /\ shape_pipeline' = None
    /\ texture_pipeline' = None
    /\ initialized' = FALSE
    /\ stop_ret' = "stopped"
    /\ proc_sent' = <<>>
    /\ UNCHANGED <<overlap, pre_pc, pre_job, handoff, proc_job,
                   pre_sent, hvars, fvars,
                   shape_pipeline_deleted, gen_pc, gen_unloaded, gen_gc, pl_ret>>

\* stop() on a worker that was stopped: `if not self._running: return`
StopAgain ==
    /\ ~running
    /\ stop_ret = "stopped"
    /\ stop_ret' = "noop"
    /\ UNCHANGED <<qvars, overlap, running, pre_pc, pre_job, handoff, proc_pc,
                   proc_job, pre_sent, proc_sent, hvars, fvars, pvars>>

\* the API (generation and rigging routers) enqueues jobs under new uuid4
\* ids and cancels jobs; the worker dequeues, reports progress and completes
WNext ==
    \/ \E id \in EnqueueIds \ Registered, pr \in {HIGH, LOW} :
           Enqueue(id, ImageJob, pr) /\ UNCHANGED <<wvars, hvars, fvars, pvars>>
    \/ \E id \in JobIds : EnqueueResume(id) /\ UNCHANGED <<wvars, hvars, fvars, pvars>>
    \/ \E id \in Registered : Cancel(id) /\ UNCHANGED <<wvars, hvars, fvars, pvars>>
    \/ PreDequeue
    \/ PrepOk
    \/ PrepFail
    \/ PrePutResume
    \/ PreWake
    \/ ProcGet
    \/ ProcDequeue
    \/ WorkerRetryPop
    \/ \E u \in HandlerProgressCalls : HandlerProgress(u[1], u[2])
    \/ \E a \in HandlerOutcomes : HandlerDone(a[1], a[2])
    \/ ProcLoop
    \/ StopPre
    \/ StopProc

SpecWorker == WInit /\ [][WNext]_vars

\* ------------------------------------------------------------ ProgressHub
\* WebSocketManager and the /progress endpoint.  The manager's lock is never
\* held across a suspension, so each of its methods is one step; the awaits
\* that suspend are receive_text and the sends.
Conns == 1..NConns
Topics == 1..NTopics

\* {"action": ..., "job_id": ...} messages of a client
ClientMessages ==
    {<<a, t>> : a \in {"subscribe", "unsubscribe"}, t \in Topics}
        \cup {<<"ping", NoJob>>}

\* WebSocketManager.disconnect, on _subscriptions, for each connection of
\* `gone` in turn: the connection is discarded from every set and the sets
\* left empty are deleted
Disconnect(subs, gone) ==
    [t \in {u \in DOMAIN subs : subs[u] \ gone # {}} |-> subs[t] \ gone]

\* WebSocketManager.subscribe, on _subscriptions
Subscribe(subs, c, t) ==
    Put(subs, t, (IF t \in DOMAIN subs THEN subs[t] ELSE {}) \cup {c})

\* WebSocketManager.unsubscribe, on _subscriptions
Unsubscribe(subs, c, t) ==
    IF t \in DOMAIN subs THEN Disconnect(subs, {c} \cap subs[t]) ELSE subs

\* the endpoint's `finally: await ws_manager.disconnect(websocket)`
EndpointFinally(c, subs) ==
    /\ connections' = connections \ {c}
    /\ subscriptions' = Disconnect(subs, {c})
    /\ ep_pc' = [ep_pc EXCEPT ![c] = "closed"]

\* websocket_progress_endpoint: `await ws_manager.connect(websocket)`
EndpointConnect(c) ==
    /\ ep_pc[c] = "new"
    /\ connections' = connections \cup {c}
    /\ ep_pc' = [ep_pc EXCEPT ![c] = "greet"]
    /\ UNCHANGED <<qvars, wvars, fvars, pvars, subscriptions, alive, inbox, bc_pc, bc_todo, bc_failed,
                   bc_copy, bc_log, bc_job>>

\* websocket_progress_endpoint: the initial queue_status is sent and the
\* receive loop entered, or the send raises and the endpoint leaves
EndpointGreet(c) ==
    /\ ep_pc[c] = "greet"
    /\ IF alive[c]
       THEN /\ ep_pc' = [ep_pc EXCEPT ![c] = "loop"]
            /\ UNCHANGED <<connections, subscriptions>>
       ELSE EndpointFinally(c, subscriptions)
    /\ UNCHANGED <<qvars, wvars, fvars, pvars, alive, inbox, bc_pc, bc_todo, bc_failed,
                   bc_copy, bc_log, bc_job>>

\* the client sends a message; it is buffered until receive_text takes it
ClientSend(c, m) ==
    /\ ep_pc[c] \in {"greet", "loop"}
    /\ alive[c]
    /\ Len(inbox[c]) < MaxInbox
    /\ inbox' = [inbox EXCEPT ![c] = Append(@, m)]
    /\ UNCHANGED <<qvars, wvars, fvars, pvars, connections, subscriptions, ep_pc, alive, bc_pc, bc_todo,
                   bc_failed,
                   bc_copy, bc_log, bc_job>>

\* the client closes its end: sends to it fail from now on, and receive_text
\* raises WebSocketDisconnect once the buffered messages are taken
ClientClose(c) ==
    /\ ep_pc[c] \in {"greet", "loop"}
    /\ alive[c]
    /\ alive' = [alive EXCEPT ![c] = FALSE]
    /\ UNCHANGED <<qvars, wvars, fvars, pvars, connections, subscriptions, ep_pc, inbox, bc_pc, bc_todo,
                   bc_failed,
                   bc_copy, bc_log, bc_job>>

\* websocket_progress_endpoint: one turn of `while True`, from receive_text
\* to the next receive_text or to the end of the endpoint; job_exists is
\* what queue.get_job(job_id) finds
EndpointReceive(c, job_exists) ==
    /\ ep_pc[c] = "loop"
    /\ IF inbox[c] = <<>>
       THEN /\ ~alive[c]
            /\ EndpointFinally(c, subscriptions)
            /\ UNCHANGED inbox
       ELSE LET m == Head(inbox[c]) IN
            /\ inbox' = [inbox EXCEPT ![c] = Tail(@)]
            /\ IF m[1] = "subscribe"
               THEN LET subs == Subscribe(subscriptions, c, m[2]) IN
                    IF job_exists /\ ~alive[c]
                    THEN EndpointFinally(c, subs)
                    ELSE /\ subscriptions' = subs
                         /\ UNCHANGED <<connections, ep_pc>>
               ELSE IF m[1] = "unsubscribe"
               THEN /\ subscriptions' = Unsubscribe(subscriptions, c, m[2])
                    /\ UNCHANGED <<connections, ep_pc>>
               ELSE IF alive[c]
               THEN UNCHANGED <<connections, subscriptions, ep_pc>>
               ELSE EndpointFinally(c, subscriptions)
    /\ UNCHANGED <<qvars, wvars, fvars, pvars, alive, bc_pc, bc_todo, bc_failed,
                   bc_copy, bc_log, bc_job>>

\* WebSocketManager.broadcast, up to its first send: returns at once without
\* connections, else iterates over a copy of _connections
Broadcast ==
    /\ bc_pc = "idle"
    /\ connections # {}
    /\ bc_pc' = "broadcast"
    /\ bc_todo' = connections
    /\ bc_failed' = {}
    /\ bc_copy' = connections
    /\ bc_log' = <<>>
    /\ bc_job' = NoJob
    /\ UNCHANGED <<qvars, wvars, fvars, pvars, connections, subscriptions, ep_pc, alive, inbox>>

\* a faulty send_to_job that always falls back to the broadcast
SendToJobAlwaysBroadcast(t) ==
    /\ bc_pc = "idle"
    /\ connections # {}
    /\ bc_pc' = "broadcast"
    /\ bc_todo' = connections
    /\ bc_failed' = {}
    /\ bc_copy' = connections
    /\ bc_log' = <<>>
    /\ bc_job' = t
    /\ UNCHANGED <<qvars, wvars, fvars, pvars, connections, subscriptions, ep_pc, alive, inbox>>

\* WebSocketManager.send_to_job, up to its first send: a copy of the job's
\* subscribers, or the broadcast when there is none
SendToJob(t) ==
    /\ bc_pc = "idle"
    /\ LET subscribers == IF t \in DOMAIN subscriptions
                          THEN subscriptions[t] ELSE {}
       IN IF subscribers = {}
          THEN /\ connections # {}
               /\ bc_pc' = "broadcast"
               /\ bc_todo' = connections
          ELSE /\ bc_pc' = "send_to_job"
               /\ bc_todo' = subscribers
    /\ bc_failed' = {}
    /\ bc_copy' = bc_todo'
    /\ bc_log' = <<>>
    /\ bc_job' = t
    /\ UNCHANGED <<qvars, wvars, fvars, pvars, connections, subscriptions, ep_pc, alive, inbox>>

\* a faulty send loop: once a send has raised, every connection of the copy
\* is disconnected at the end
SendTextPruneAll(c) ==
    /\ bc_pc # "idle"
    /\ c \in bc_todo
    /\ LET disconnected == IF alive[c] THEN bc_failed ELSE bc_failed \cup {c}
           pruned == IF disconnected = {} THEN {} ELSE bc_copy
       IN IF bc_todo = {c}
          THEN /\ connections' = connections \ pruned
               /\ subscriptions' = Disconnect(subscriptions, pruned)
               /\ bc_pc' = "idle"
               /\ bc_todo' = {}
               /\ bc_failed' = {}
          ELSE /\ bc_todo' = bc_todo \ {c}
               /\ bc_failed' = disconnected
               /\ UNCHANGED <<connections, subscriptions, bc_pc>>
    /\ bc_log' = Append(bc_log, <<c, alive[c]>>)
    /\ UNCHANGED <<bc_copy, bc_job>>
    /\ UNCHANGED <<qvars, wvars, fvars, pvars, ep_pc, alive, inbox>>

\* broadcast / send_to_job: `await connection.send_text(data)` for the next
\* connection of the copy, a failure being collected; after the last one
\* every collected connection is disconnected
SendText(c) ==
    /\ bc_pc # "idle"
    /\ c \in bc_todo
    /\ LET disconnected == IF alive[c] THEN bc_failed ELSE bc_failed \cup {c}
       IN IF bc_todo = {c}
          THEN /\ connections' = connections \ disconnected
               /\ subscriptions' = Disconnect(subscriptions, disconnected)
               /\ bc_pc' = "idle"
               /\ bc_todo' = {}
               /\ bc_failed' = {}
          ELSE /\ bc_todo' = bc_todo \ {c}
               /\ bc_failed' = disconnected
               /\ UNCHANGED <<connections, subscriptions, bc_pc>>
    /\ bc_log' = Append(bc_log, <<c, alive[c]>>)
    /\ UNCHANGED <<bc_copy, bc_job>>
    /\ UNCHANGED <<qvars, wvars, fvars, pvars, ep_pc, alive, inbox>>

HInit ==
    QueueInit /\ max_size = MaxSize /\ NoWorker /\ HubInit /\ WorkflowInit /\ PipelineInit

\* clients connect, send and close; the server broadcasts and sends to jobs
HNext ==
    \/ \E c \in Conns : EndpointConnect(c)
    \/ \E c \in Conns : EndpointGreet(c)
    \/ \E c \in Conns, m \in ClientMessages : ClientSend(c, m)
    \/ \E c \in Conns : ClientClose(c)
    \/ \E c \in Conns, job_exists \in BOOLEAN : EndpointReceive(c, job_exists)
    \/ Broadcast
    \/ \E t \in Topics : SendToJob(t)
    \/ \E c \in Conns : SendText(c)

SpecHub == HInit /\ [][HNext]_vars

\* -------------------------------------------------------- WorkflowService
Assets == 1..NAssets

\* asset ids a caller passes; 0 has no row in the assets table
AssetIds == 0..NAssets

\* the names generation/models.py binds at module level: its imports, its
\* enums, its tables and its mapped classes
ModelsNames ==
    {"enum", "datetime", "Optional", "Boolean", "Column", "DateTime", "SQLEnum",
     "Float", "ForeignKey", "Integer", "JSON", "String", "Table", "Text",
     "relationship", "func", "Base", "AssetStatus", "GenerationType",
     "JobStatus", "asset_tags", "project_assets", "Tag", "Asset", "Project",
     "GenerationJob"}

\* the columns and relationships class Asset maps
AssetAttributes ==
    {"id", "name", "description", "source_type", "source_image_path",
     "source_prompt", "generation_params", "file_path", "thumbnail_path",
     "vertex_count", "face_count", "file_size_bytes",
     "generation_time_seconds", "status", "error_message", "created_at",
     "updated_at", "has_lod", "lod_levels", "is_favorite", "rating",
     "is_rigged", "rigging_data", "character_type", "rigged_mesh_path",
     "rigging_processor", "tags", "projects", "job"}

\* the attributes class WebSocketManager defines
ManagerMethods ==
    {"__init__", "connection_count", "connect", "disconnect", "subscribe",
     "unsubscribe", "broadcast", "send_to_job", "send_progress",
     "send_queue_status", "send_job_created", "send_asset_ready",
     "send_error", "send_rigging_progress", "send_rigging_complete"}

\* STAGE_ORDER, by the values of its members (WorkflowStageType)
STAGE_ORDER ==
    <<"uploaded", "mesh_generated", "mesh_approved", "textured",
      "texture_approved", "rigged", "exported">>

Stages == {STAGE_ORDER[i] : i \in 1..Len(STAGE_ORDER)}

\* STAGE_ORDER.index(stage), counted from 1
StageIndex(stage) == CHOOSE i \in 1..Len(STAGE_ORDER) : STAGE_ORDER[i] = stage

\* `from src.generation.models import Asset, WorkflowStage`
ServiceImports == {"Asset", "WorkflowStage"}

\* importing workflow/service.py succeeds: models.py binds what it imports
ServiceLoads == ServiceImports \subseteq ModelsNames

\* `asset.workflow_stage or WorkflowStage.UPLOADED.value`
CurrentStage(a) == IF wf_stage[a] = None THEN "uploaded" ELSE wf_stage[a]

\* the if/elif chain of approve_stage: the stage an approval moves to
ApproveNext(current) ==
    CASE current = "uploaded" -> "mesh_generated"
      [] current = "mesh_generated" -> "mesh_approved"
      [] current = "mesh_approved" -> "textured"
      [] current = "textured" -> "texture_approved"
      [] current = "texture_approved" -> "rigged"
      [] current = "rigged" -> "exported"
      [] OTHER -> None

\* the `skipped` list of skip_to_export: range(current_idx + 1, export_idx)
Skipped(current) ==
    [i \in 1..(StageIndex("exported") - StageIndex(current) - 1) |->
        STAGE_ORDER[StageIndex(current) + i]]

\* what a call reports: a result dict (success / failure) or the exception
\* that leaves it; `before` is the stage the asset had when it was called
WfResult(op, a, out, value) ==
    [op |-> op, asset |-> a,
     before |-> IF a \in Assets THEN CurrentStage(a) ELSE None,
     out |-> out, value |-> value]

\* a call that ends before it touches the session or the hub
WfEnds(op, a, out, value) ==
    /\ wf_ret' = WfResult(op, a, out, value)
    /\ UNCHANGED <<wf_stage, wf_sent>>

\* `await ws.send_workflow_update(asset_id=..., stage=...)` on the manager
\* get_websocket_manager() returns, then the success dict
SendWorkflowUpdate(op, a, stage, value) ==
    IF "send_workflow_update" \in ManagerMethods
    THEN /\ wf_sent' = <<a, stage>>
         /\ wf_ret' = WfResult(op, a, "success", value)
    ELSE /\ wf_sent' = wf_sent
         /\ wf_ret' = WfResult(op, a, "AttributeError", None)

\* WorkflowService.approve_stage(asset_id)
ApproveStage(a) ==
    /\ IF ~ServiceLoads
       THEN WfEnds("approve", a, "ImportError", None)
       ELSE IF a \notin Assets
       THEN WfEnds("approve", a, "failure", "not found")
       ELSE IF "workflow_stage" \notin AssetAttributes
       THEN WfEnds("approve", a, "AttributeError", None)
       ELSE IF CurrentStage(a) = "exported"
       THEN WfEnds("approve", a, "success", None)
       ELSE /\ wf_stage' = [wf_stage EXCEPT ![a] = ApproveNext(CurrentStage(a))]
            /\ SendWorkflowUpdate("approve", a, ApproveNext(CurrentStage(a)),
                                  ApproveNext(CurrentStage(a)))
    /\ UNCHANGED <<qvars, wvars, hvars, pvars>>

\* WorkflowService.advance_stage(asset_id, to_stage)
AdvanceStage(a, to_stage) ==
    /\ IF ~ServiceLoads
       THEN WfEnds("advance", a, "ImportError", None)
       ELSE IF a \notin Assets
       THEN WfEnds("advance", a, "failure", "not found")
       ELSE IF to_stage \notin Stages
       THEN WfEnds("advance", a, "failure", "invalid stage")
       ELSE /\ wf_stage' = IF "workflow_stage" \in AssetAttributes
                           THEN [wf_stage EXCEPT ![a] = to_stage]
                           ELSE wf_stage   \* a plain attribute: commit stores nothing
            /\ SendWorkflowUpdate("advance", a, to_stage, to_stage)
    /\ UNCHANGED <<qvars, wvars, hvars, pvars>>

\* WorkflowService.skip_to_export(asset_id)
SkipToExport(a) ==
    /\ IF ~ServiceLoads
       THEN WfEnds("skip_to_export", a, "ImportError", None)
       ELSE IF a \notin Assets
       THEN WfEnds("skip_to_export", a, "failure", "not found")
       ELSE IF "workflow_stage" \notin AssetAttributes
       THEN WfEnds("skip_to_export", a, "AttributeError", None)
       ELSE /\ wf_stage' = [wf_stage EXCEPT ![a] = "exported"]
            /\ SendWorkflowUpdate("skip_to_export", a, "exported",
                                  Skipped(CurrentStage(a)))
    /\ UNCHANGED <<qvars, wvars, hvars, pvars>>

\* the hub's clients connect and close, and the server broadcasts, while the
\* workflow endpoints are called
FNext ==
    \/ \E c \in Conns : EndpointConnect(c)
    \/ \E c \in Conns : EndpointGreet(c)
    \/ \E c \in Conns : ClientClose(c)
    \/ \E c \in Conns, job_exists \in BOOLEAN : EndpointReceive(c, job_exists)
    \/ Broadcast
    \/ \E c \in Conns : SendText(c)
    \/ \E a \in AssetIds : ApproveStage(a)
    \/ \E a \in AssetIds, to_stage \in Stages \cup {"bogus"} : AdvanceStage(a, to_stage)
    \/ \E a \in AssetIds : SkipToExport(a)

SpecWorkflow == HInit /\ [][FNext]_vars

\* --------------------------------------- PipelineService, Hunyuan3DPipeline
\* The pipeline runs on a CUDA device that is available (self.device stays
\* "cuda").  A pipeline attribute is None or holds the object, and the model
\* keeps where the object's weights are: "cuda" or "cpu".

\* the stage names callers pass; "bogus" is none of the four the code knows
StageNames == {"mesh", "texture", "rigging", "export", "bogus"}

\* get_status(): shape_loaded, texture_loaded
ShapeLoaded == shape_pipeline # None

TextureLoaded == texture_pipeline # None

\* the slots get_status() reports as loaded
Loaded ==
    (IF ShapeLoaded THEN {"shape"} ELSE {}) \cup
    (IF TextureLoaded THEN {"texture"} ELSE {})

\* get_status(): ready_for_stage
ReadyForStage ==
    IF ~ShapeLoaded /\ ~TextureLoaded THEN "upload"
    ELSE IF ShapeLoaded /\ ~TextureLoaded THEN "mesh"
    ELSE IF TextureLoaded /\ ~ShapeLoaded THEN "texture"
    ELSE "unknown"

\* _load_models(): the shape pipeline, loaded and moved to the device, or
\* None when hy3dgen or the model files are missing (mock mode)
LoadShape(shape_ok) == IF shape_ok THEN "cuda" ELSE None

\* _load_models(): the texture pipeline, loaded after the shape pipeline and
\* kept on the CPU; None when its load fails; untouched in mock mode
LoadTexture(shape_ok, texture_ok, tex) ==
    IF ~shape_ok THEN tex ELSE IF texture_ok THEN "cpu" ELSE None

\* `pipeline._texture_pipeline.to("cpu")` inside try / except: pass
ToCpu(pipe, moved) == IF pipe # None /\ moved THEN "cpu" ELSE pipe

\* the dict prepare_for_stage returns after its stage branch: the status
\* broadcast `await ws.send_pipeline_status(...)` is inside the try, and the
\* except clause turns what it raises into the failure dict
PrepareReturnNoExcept(freed_gb, loaded_pipeline) ==
    IF "send_pipeline_status" \in ManagerMethods
    THEN [raised |-> FALSE, success |-> TRUE, freed_gb |-> freed_gb,
          loaded_pipeline |-> loaded_pipeline]
    ELSE [raised |-> TRUE, success |-> FALSE, freed_gb |-> 0,
          loaded_pipeline |-> None]

PrepareReturn(freed_gb, loaded_pipeline) ==
    IF "send_pipeline_status" \in ManagerMethods
    THEN [raised |-> FALSE, success |-> TRUE, freed_gb |-> freed_gb,
          loaded_pipeline |-> loaded_pipeline]
    ELSE [raised |-> FALSE, success |-> FALSE, freed_gb |-> 0,
          loaded_pipeline |-> None]

\* the dict for a stage name that is none of the four
UnknownStage ==
    [raised |-> FALSE, success |-> FALSE, freed_gb |-> 0, loaded_pipeline |-> None]

\* history: a PipelineService call, the two calls before it, what it
\* returned, the slots its unload code ran for and the slots it loaded
PlResult(op, stage, out, evicted, loaded) ==
    [op |-> op, stage |-> stage, prev |-> pl_ret.stage, prev2 |-> pl_ret.prev,
     tick |-> 1 - pl_ret.tick, raised |-> out.raised, success |-> out.success,
     freed_gb |-> out.freed_gb, loaded_pipeline |-> out.loaded_pipeline,
     evicted |-> evicted, loaded |-> loaded]

\* the slots a call's unload code runs for
Evicts(unload_shape, unload_texture) ==
    (IF unload_shape /\ ShapeLoaded THEN {"shape"} ELSE {}) \cup
    (IF unload_texture /\ TextureLoaded THEN {"texture"} ELSE {})

\* PipelineService.prepare_for_stage(stage).  shape_ok, texture_ok: what
\* _load_models finds if the call initializes the pipeline; moved: the
\* texture pipeline's .to("cpu") succeeds; freed: the freed_gb
\* unload_shape_pipeline measures; allocated: get_vram_info()["allocated_gb"]
PrepareForStage(stage, shape_ok, texture_ok, moved, freed, allocated) ==
    /\ CASE stage = "mesh" ->
              /\ shape_pipeline' =
                     IF initialized THEN shape_pipeline ELSE LoadShape(shape_ok)
              /\ texture_pipeline' =
                     IF initialized THEN ToCpu(texture_pipeline, moved)
                     ELSE LoadTexture(shape_ok, texture_ok,
                                      ToCpu(texture_pipeline, moved))
              /\ initialized' = TRUE
              /\ pl_ret' = PlResult("prepare", stage,
                     PrepareReturn(IF TextureLoaded THEN TextureGb ELSE 0, "shape"),
                     Evicts(FALSE, TRUE),
                     IF initialized THEN {}
                     ELSE {s \in {"shape", "texture"} :
                             \/ s = "shape" /\ shape_ok
                             \/ s = "texture" /\ shape_ok /\ texture_ok})
         [] stage = "texture" ->
              /\ shape_pipeline' = None
              /\ pl_ret' = PlResult("prepare", stage,
                     PrepareReturn(IF ShapeLoaded THEN freed ELSE 0, "texture"),
                     Evicts(TRUE, FALSE), {})
              /\ UNCHANGED <<texture_pipeline, initialized>>
         [] stage = "rigging" ->
              /\ shape_pipeline' = None
              /\ texture_pipeline' = ToCpu(texture_pipeline, moved)
              /\ pl_ret' = PlResult("prepare", stage,
                     PrepareReturn((IF ShapeLoaded THEN freed ELSE 0) +
                                   (IF TextureLoaded THEN TextureGb ELSE 0), None),
                     Evicts(TRUE, TRUE), {})
              /\ UNCHANGED initialized
         [] stage = "export" ->
              \* `await self.unload_all()`, whose own failure dict is dropped
              /\ shape_pipeline' = None
              /\ texture_pipeline' = None
              /\ pl_ret' = PlResult("prepare", stage,
                     PrepareReturn(allocated, None), Evicts(TRUE, TRUE), {})
              /\ UNCHANGED initialized
         [] OTHER ->
              /\ pl_ret' = PlResult("prepare", stage, UnknownStage, {}, {})
              /\ UNCHANGED <<shape_pipeline, texture_pipeline, initialized>>
    /\ UNCHANGED <<shape_pipeline_deleted, gen_pc, gen_unloaded, gen_gc>>
    /\ UNCHANGED <<qvars, wvars, hvars, fvars>>

\* PipelineService.unload_all()
UnloadAll(freed) ==
    /\ shape_pipeline' = None
    /\ texture_pipeline' = None
    /\ pl_ret' = PlResult("unload_all", "unload_all",
           PrepareReturn((IF ShapeLoaded THEN freed ELSE 0) +
                         (IF TextureLoaded THEN TextureGb ELSE 0), None),
           Evicts(TRUE, TRUE), {})
    /\ UNCHANGED <<initialized, shape_pipeline_deleted, gen_pc, gen_unloaded, gen_gc>>
    /\ UNCHANGED <<qvars, wvars, hvars, fvars>>

\* Hunyuan3DPipeline.generate, to its first wait (the executor running
\* _generate_shape): `if not self._initialized: await self.initialize()`
GenStart(shape_ok, texture_ok) ==
    /\ gen_pc = "idle"
    /\ gen_pc' = "shape"
    /\ shape_pipeline' = IF initialized THEN shape_pipeline ELSE LoadShape(shape_ok)
    /\ texture_pipeline' =
           IF initialized THEN texture_pipeline
           ELSE LoadTexture(shape_ok, texture_ok, texture_pipeline)
    /\ initialized' = TRUE
    /\ gen_unloaded' = FALSE
    /\ gen_gc' = FALSE
    /\ UNCHANGED <<shape_pipeline_deleted, pl_ret>>
    /\ UNCHANGED <<qvars, wvars, hvars, fvars>>

\* _generate_shape in the executor: a shape pipeline that is None is
\* reloaded (_reload_shape_pipeline), or a mock mesh is made
GenShape(reload_ok) ==
    /\ gen_pc = "shape"
    /\ gen_pc' = "handover"
    /\ IF shape_pipeline = None
       THEN /\ shape_pipeline' = IF reload_ok THEN "cuda" ELSE None
            /\ shape_pipeline_deleted' = (~reload_ok /\ shape_pipeline_deleted)
       ELSE UNCHANGED <<shape_pipeline, shape_pipeline_deleted>>
    /\ UNCHANGED <<texture_pipeline, initialized, gen_unloaded, gen_gc, pl_ret>>
    /\ UNCHANGED <<qvars, wvars, hvars, fvars>>

\* generate, from the shape to the wait for _generate_texture: the
\* shape-to-texture hand-over.  outcome: prepare_for_texture moved the shape
\* pipeline to the CPU, left it on the device (its failures are logged), the
\* pipeline was deleted because less than 16 GB were free, or the block raised
GenHandover(enabled, outcome) ==
    /\ gen_pc = "handover"
    /\ IF ~enabled
       THEN /\ gen_pc' = "save"
            /\ UNCHANGED <<shape_pipeline, shape_pipeline_deleted, gen_unloaded, gen_gc>>
       ELSE /\ gen_pc' = "texture"
            /\ IF shape_pipeline = None \/ outcome = "raised"
               THEN UNCHANGED <<shape_pipeline, shape_pipeline_deleted,
                                gen_unloaded, gen_gc>>
               ELSE /\ shape_pipeline' =
                           CASE outcome = "moved" -> "cpu"
                             [] outcome = "stuck" -> shape_pipeline
                             [] outcome = "deleted" -> None
                    /\ shape_pipeline_deleted' =
                           (outcome = "deleted" \/ shape_pipeline_deleted)
                    /\ gen_gc' = (outcome = "deleted")
                    /\ gen_unloaded' = TRUE
    /\ UNCHANGED <<texture_pipeline, initialized, pl_ret>>
    /\ UNCHANGED <<qvars, wvars, hvars, fvars>>

\* _generate_texture in the executor: the texture pipeline is moved to the
\* device ("ok"), runs where it is because the move failed ("stuck"), or the
\* function raises and generate returns its failure result ("raised")
GenTexture(outcome) ==
    /\ gen_pc = "texture"
    /\ IF texture_pipeline = None
       THEN gen_pc' = "restore" /\ UNCHANGED texture_pipeline
       ELSE /\ gen_pc' = IF outcome = "raised" THEN "idle" ELSE "restore"
            /\ texture_pipeline' = IF outcome = "ok" THEN "cuda" ELSE texture_pipeline
    /\ UNCHANGED <<shape_pipeline, initialized, shape_pipeline_deleted,
                   gen_unloaded, gen_gc, pl_ret>>
    /\ UNCHANGED <<qvars, wvars, hvars, fvars>>

\* generate after the texture: the texture pipeline goes back to the CPU
\* and the shape pipeline is restored.  `gc` is a local name of generate
\* that only line 370 binds: where it is unbound, gc.collect() raises
\* inside the try blocks, after the texture move and before any restore.
GenRestore(moved, reload_ok) ==
    /\ gen_pc = "restore"
    /\ gen_pc' = "save"
    /\ texture_pipeline' = ToCpu(texture_pipeline, moved)
    /\ IF gen_unloaded /\ gen_gc
       THEN IF shape_pipeline = None /\ shape_pipeline_deleted
            THEN /\ shape_pipeline' = IF reload_ok THEN "cuda" ELSE None
                 /\ shape_pipeline_deleted' = ~reload_ok
            ELSE /\ shape_pipeline' = IF shape_pipeline # None THEN "cuda" ELSE None
                 /\ UNCHANGED shape_pipeline_deleted
       ELSE UNCHANGED <<shape_pipeline, shape_pipeline_deleted>>
    /\ UNCHANGED <<initialized, gen_unloaded, gen_gc, pl_ret>>
    /\ UNCHANGED <<qvars, wvars, hvars, fvars>>

\* generate: _save_mesh in the executor, then the result
GenSave ==
    /\ gen_pc = "save"
    /\ gen_pc' = "idle"
    /\ UNCHANGED <<shape_pipeline, texture_pipeline, initialized,
                   shape_pipeline_deleted, gen_unloaded, gen_gc, pl_ret>>
    /\ UNCHANGED <<qvars, wvars, hvars, fvars>>

\* the /api/pipeline endpoints are called while the worker runs one
\* generate() at a time
PNext ==
    \/ \E stage \in StageNames, shape_ok, texture_ok, moved \in BOOLEAN,
          freed, allocated \in {0, ShapeGb} :
          PrepareForStage(stage, shape_ok, texture_ok, moved, freed, allocated)
    \/ \E freed \in {0, ShapeGb} : UnloadAll(freed)
    \/ \E shape_ok, texture_ok \in BOOLEAN : GenStart(shape_ok, texture_ok)
    \/ \E reload_ok \in BOOLEAN : GenShape(reload_ok)
    \/ \E enabled \in BOOLEAN, outcome \in {"moved", "stuck", "deleted", "raised"} :
          GenHandover(enabled, outcome)
    \/ \E outcome \in {"ok", "stuck", "raised"} : GenTexture(outcome)
    \/ \E moved, reload_ok \in BOOLEAN : GenRestore(moved, reload_ok)
    \/ GenSave

SpecPipeline == HInit /\ [][PNext]_vars

\* ------------------------------------- BackgroundWorker and the pipeline
\* The worker after start() with the pipeline as `await
\* self._pipeline.initialize()` left it: the models loaded, the texture
\* model missing, or mock mode
DInit ==
    /\ QueueInit
    /\ max_size = MaxSize
    /\ overlap \in BOOLEAN
    /\ running = TRUE
    /\ pre_pc = IF overlap THEN "dequeue" ELSE "off"
    /\ pre_job = NoJob
    /\ handoff = <<>>
    /\ proc_pc = "get"
    /\ proc_job = NoJob
    /\ pre_sent = <<>>
    /\ proc_sent = <<>>
    /\ stop_ret = None
    /\ HubInit
    /\ WorkflowInit
    /\ \E shape_ok, texture_ok \in BOOLEAN :
           /\ shape_pipeline = LoadShape(shape_ok)
           /\ texture_pipeline = LoadTexture(shape_ok, texture_ok, None)
    /\ initialized = TRUE
    /\ shape_pipeline_deleted = FALSE
    /\ gen_pc = "idle"
    /\ gen_unloaded = FALSE
    /\ gen_gc = FALSE
    /\ pl_ret = [op |-> "init", stage |-> None, prev |-> None, prev2 |-> None,
                 tick |-> 0, raised |-> FALSE, success |-> FALSE, freed_gb |-> 0,
                 loaded_pipeline |-> None, evicted |-> {}, loaded |-> {}]

\* the last call generate() makes before it returns its result,
\* `update_progress(1.0, "Complete")`: in hundredths, and 0.15 + 1.0 * 0.85
\* where the callback offsets it
FinalProgress == <<100, "Complete">>

\* the progress_callback that generate() schedules on the loop with its last
\* update_progress call runs at the loop's next suspension: generate()
\* returns and _process_job calls complete() without suspending in between
LateProgress ==
    /\ proc_pc = "sent"
    /\ \E id \in Registered :
           /\ JobType(id) = "image_to_3d"
           /\ \E i \in DOMAIN proc_sent : proc_sent[i] = Progress(id, "completed")
           /\ UpdateProgress(id, FinalProgress[1], FinalProgress[2])
    /\ UNCHANGED <<wvars, hvars, fvars, pvars>>

\* the routers enqueue jobs of every type at NORMAL priority; the worker
\* routes them to its handlers and is stopped, once or twice
DNext ==
    \/ \E id \in EnqueueIds \ Registered, p \in JobPayloads :
           Enqueue(id, p, NORMAL) /\ UNCHANGED <<wvars, hvars, fvars, pvars>>
    \/ PreDequeue
    \/ PrepOk
    \/ PrepFail
    \/ PrePutResume
    \/ PreWake
    \/ ProcGet
    \/ ProcDequeue
    \/ \E u \in HandlerProgressCalls : HandlerProgress(u[1], u[2])
    \/ \E a \in DispatchOutcomes : HandlerDone(a[1], a[2])
    \/ LateProgress
    \/ ProcLoop
    \/ StopPre
    \/ StopProc
    \/ StopAgain

SpecDispatch == DInit /\ [][DNext]_vars

\* ------------------------------------------------------------ worker start
\* BackgroundWorker.__init__ with the queue, the hub and the pipeline of the
\* application: nothing is started
SInit ==
    /\ QueueInit
    /\ max_size = MaxSize
    /\ overlap \in BOOLEAN
    /\ running = FALSE
    /\ pre_pc = "off"
    /\ pre_job = NoJob
    /\ handoff = <<>>
    /\ proc_pc = "off"
    /\ proc_job = NoJob
    /\ pre_sent = <<>>
    /\ proc_sent = <<>>
    /\ stop_ret = None
    /\ HubInit
    /\ WorkflowInit
    /\ PipelineInit

\* BackgroundWorker.start() on a worker whose loops were never created, as
\* the application's lifespan and start_worker() call it.  pre_raises:
\* `await self._preprocessor.initialize()` raises (rembg's new_session fails
\* with something else than ImportError); shape_ok, texture_ok: what
\* _load_models finds in `await self._pipeline.initialize()`, which catches
\* its own errors.
Start(pre_raises, shape_ok, texture_ok) ==
    /\ proc_pc = "off"
    /\ stop_ret = None
    /\ IF running
       THEN \* "Worker already running": the call returns at once
            UNCHANGED <<running, pre_pc, proc_pc, shape_pipeline,
                        texture_pipeline, initialized>>
       ELSE /\ running' = TRUE
            /\ IF pre_raises
               THEN UNCHANGED <<pre_pc, proc_pc, shape_pipeline,
                                texture_pipeline, initialized>>
               ELSE /\ shape_pipeline' =
                           IF initialized THEN shape_pipeline
                           ELSE LoadShape(shape_ok)
                    /\ texture_pipeline' =
                           IF initialized THEN texture_pipeline
                           ELSE LoadTexture(shape_ok, texture_ok, texture_pipeline)
                    /\ initialized' = TRUE
                    /\ pre_pc' = IF overlap THEN "dequeue" ELSE "off"
                    /\ proc_pc' = "get"
    /\ UNCHANGED <<qvars, overlap, pre_job, handoff, proc_job, pre_sent,
                   proc_sent, stop_ret, hvars, fvars,
                   shape_pipeline_deleted, gen_pc, gen_unloaded, gen_gc, pl_ret>>

\* the application: the worker is started, the routers enqueue jobs of
\* every type, the loops run and the worker is stopped
SNext ==
    \/ \E pre_raises, shape_ok, texture_ok \in BOOLEAN :
           Start(pre_raises, shape_ok, texture_ok)
    \/ \E id \in EnqueueIds \ Registered, p \in JobPayloads :
           Enqueue(id, p, NORMAL) /\ UNCHANGED <<wvars, hvars, fvars, pvars>>
    \/ PreDequeue
    \/ PrepOk
    \/ PrepFail
    \/ PrePutResume
    \/ PreWake
    \/ ProcGet
    \/ ProcDequeue
    \/ \E u \in HandlerProgressCalls : HandlerProgress(u[1], u[2])
    \/ \E a \in DispatchOutcomes : HandlerDone(a[1], a[2])
    \/ LateProgress
    \/ ProcLoop
    \/ StopPre
    \/ StopProc
    \/ StopAgain

SpecStart == SInit /\ [][SNext]_vars

\* ------------------------------------------------------------- properties
\* `ret` holds the last queue call and what it reported; every queue
\* operation writes it, so `ret'.op = "cancel"` in a step of SpecQueue or
\* SpecComplete says that the step is a cancel call.

\* C1: when dequeue pops a cancelled job it retries transparently: the retry
\* never waits for the lock while it holds a popped job (it does not hang
\* with a job available), and the lock is free during the retry so that
\* enqueue, complete, cancel and update_progress can run.
C1_RetryIsTransparent ==
    dq_pc \in {"retry", "stuck"} => (~locked /\ dq_pc # "stuck")

\* C2: dequeue returns a job only if no Pending job has a numerically lower
\* priority (HIGH before NORMAL before LOW), whatever the enqueue order.
C2_PriorityOrder ==
    (ret.op = "dequeue" /\ ret.out = "job") =>
        \A k \in Registered :
            jobs[k].status = "pending" => jobs[k].priority >= jobs[ret.id].priority

\* C3: dequeue returns a job only if no Pending job of the same priority was
\* enqueued by an earlier call (ids number the enqueue calls in order).
C3_FifoWithinPriority ==
    (ret.op = "dequeue" /\ ret.out = "job") =>
        \A k \in Registered :
            (jobs[k].status = "pending" /\ jobs[k].priority = jobs[ret.id].priority)
                => k > ret.id

\* C4: enqueue with an id that is already registered reports the duplicate
\* (ValueError) and changes neither the registry, with the job registered
\* under the id, nor the priority structure and its waiting puts.
C4_DuplicateEnqueue ==
    [][(ret'.op = "enqueue" /\ ret'.id \in Registered) =>
           /\ ret'.out = "ValueError"
           /\ jobs' = jobs
           /\ heap' = heap
           /\ unfinished' = unfinished
           /\ putters' = putters
           /\ put_ready' = put_ready]_vars

\* a duplicate enqueue, with another payload, of a job that is Processing
C4_Witness ==
    /\ ret.op = "enqueue"
    /\ ret.out = "ValueError"
    /\ jobs[ret.id].status = "processing"
    /\ jobs[ret.id].payload = "p1"
    /\ Len(heap) > 0

\* C5: enqueue on a full priority structure fails with QueueFull: it never
\* suspends its caller.
C5_FullQueueRaises ==
    ret.op = "enqueue" => ret.out # "suspended"

\* C6: a complete call for a job that is already Completed or Failed is a
\* no-op: the job (status, result, error) and both counters stay as they are.
C6_CompleteOnce ==
    [][(/\ ret'.op = "complete"
        /\ ret'.id \in Registered
        /\ jobs[ret'.id].status \in {"completed", "failed"}) =>
           /\ jobs' = jobs
           /\ completed_count' = completed_count
           /\ failed_count' = failed_count]_vars

\* C7: under the API and the worker a job's status moves only
\* pending -> processing -> completed | failed, or pending -> cancelled; no
\* job leaves the registry.
C7_StatusTransitions ==
    [][\A j \in Registered :
           /\ j \in DOMAIN jobs'
           /\ \/ jobs'[j].status = jobs[j].status
              \/ <<jobs[j].status, jobs'[j].status>> \in
                     {<<"pending", "processing">>, <<"processing", "completed">>,
                      <<"processing", "failed">>, <<"pending", "cancelled">>}]_vars

\* the worker has completed a job and failed another, a third was cancelled
C7_Witness ==
    \E a, b, c \in Registered :
        /\ jobs[a].status = "completed"
        /\ jobs[b].status = "failed"
        /\ jobs[c].status = "cancelled"

\* C8: cancel of a Pending job returns True and leaves it Cancelled with a
\* completion timestamp; cancel of a Processing job returns False and leaves
\* its status, error and completed_at; cancel of an unknown or terminal job
\* returns False and changes nothing.
C8_Cancel ==
    [][ret'.op = "cancel" =>
           /\ UNCHANGED <<heap, unfinished, current_job, completed_count, failed_count>>
           /\ IF ret'.id \in Registered /\ jobs[ret'.id].status = "pending"
              THEN /\ ret'.out = "True"
                   /\ jobs'[ret'.id].status = "cancelled"
                   /\ jobs'[ret'.id].completed_at # None
                   /\ \A k \in Registered \ {ret'.id} : jobs'[k] = jobs[k]
              ELSE /\ ret'.out = "False"
                   /\ jobs' = jobs]_vars

\* a cancel of a Processing job was refused
C8_Witness ==
    /\ ret.op = "cancel"
    /\ ret.out = "False"
    /\ ret.id \in Registered
    /\ jobs[ret.id].status = "processing"
    /\ jobs[ret.id].completed_at = None

\* C9: get_status() agrees with the registry: each of pending_count,
\* processing_count, completed_count and failed_count is the number of
\* registered jobs in that status, and with the Cancelled jobs they sum to
\* total_jobs.
C9_StatusReconciles ==
    LET s == GetStatus IN
    /\ s.pending_count = CountStatus("pending")
    /\ s.processing_count = CountStatus("processing")
    /\ s.completed_count = CountStatus("completed")
    /\ s.failed_count = CountStatus("failed")
    /\ s.pending_count + s.processing_count + s.completed_count
           + s.failed_count + CountStatus("cancelled") = s.total_jobs

\* C10: every connection in a subscription set is in the all-connections set.
C10_SubscribersConnected ==
    \A t \in DOMAIN subscriptions : subscriptions[t] \subseteq connections

\* C11: a broadcast sends once to each connection of its copy of the
\* live-connections set, removes nothing while it sends and, when it ends,
\* removes from the live-connections set exactly the connections whose send
\* raised; the next broadcast takes its copy from that set.
C11_BroadcastPrunesFailed ==
    [][/\ (bc_pc = "idle" /\ bc_pc' = "broadcast" /\ bc_job' = NoJob)
              => bc_copy' = connections
       /\ (bc_pc = "broadcast" /\ bc_job = NoJob /\ bc_log' # bc_log) =>
              LET sent == bc_log'[Len(bc_log')][1]
                  raised == {c \in bc_copy : \E i \in 1..Len(bc_log') :
                                                 bc_log'[i] = <<c, FALSE>>}
              IN /\ sent \in bc_copy
                 /\ \A i \in 1..Len(bc_log) : bc_log[i][1] # sent
                 /\ IF bc_pc' = "idle"
                    THEN /\ connections' = connections \ raised
                         /\ {bc_log'[i][1] : i \in 1..Len(bc_log')} = bc_copy
                    ELSE connections' = connections]_vars

\* a broadcast to two connections has ended: the send to one raised and it
\* is removed, the other got the message and is still connected
C11_Witness ==
    /\ bc_pc = "idle"
    /\ bc_job = NoJob
    /\ Len(bc_log) = NConns
    /\ \E c, d \in Conns :
           /\ \E i \in 1..Len(bc_log) : bc_log[i] = <<c, FALSE>>
           /\ \E i \in 1..Len(bc_log) : bc_log[i] = <<d, TRUE>>
           /\ c \notin connections
           /\ d \in connections

\* C12: send_to_job(job_id) sends to the job's subscribers and to nobody
\* else when there are some, and to every live connection when there are
\* none; no connection is sent the message twice.
C12_SendToJobTargets ==
    [][/\ (bc_pc = "idle" /\ bc_pc' # "idle" /\ bc_job' # NoJob) =>
              LET subscribers == IF bc_job' \in DOMAIN subscriptions
                                 THEN subscriptions[bc_job'] ELSE {}
              IN /\ bc_copy' = IF subscribers # {} THEN subscribers ELSE connections
                 /\ bc_pc' = IF subscribers # {} THEN "send_to_job" ELSE "broadcast"
       /\ (bc_pc # "idle" /\ bc_job # NoJob /\ bc_log' # bc_log) =>
              LET sent == bc_log'[Len(bc_log')][1]
              IN /\ sent \in bc_copy
                 /\ \A i \in 1..Len(bc_log) : bc_log[i][1] # sent
                 /\ bc_pc' = "idle" =>
                        {bc_log'[i][1] : i \in 1..Len(bc_log')} = bc_copy]_vars

\* a send_to_job has ended that delivered to the job's one subscriber while
\* another connection was live and got nothing
C12_Witness ==
    /\ bc_pc = "idle"
    /\ bc_job # NoJob
    /\ \E c, d \in Conns :
           /\ c # d
           /\ bc_log = <<<<c, TRUE>>>>
           /\ d \in connections
           /\ alive[d]

\* C13: approve_stage(asset) moves the asset exactly one position forward in
\* STAGE_ORDER and stores it, and an approval at "exported" leaves the stage
\* "exported" and reports next_stage = None (so six approvals from
\* "uploaded" reach "exported").  Stated of the last approve call on an
\* asset of the table.
C13_ApproveAdvancesOne ==
    (wf_ret.op = "approve" /\ wf_ret.asset \in Assets) =>
        IF wf_ret.before = "exported"
        THEN /\ CurrentStage(wf_ret.asset) = "exported"
             /\ wf_ret.out = "success"
             /\ wf_ret.value = None
        ELSE CurrentStage(wf_ret.asset) = STAGE_ORDER[StageIndex(wf_ret.before) + 1]

\* C14: skip_to_export(asset) from any stage s sets the stage to "exported"
\* and returns as skipped_stages exactly the stages strictly between s and
\* "exported" in table order.
C14_SkipToExport ==
    (wf_ret.op = "skip_to_export" /\ wf_ret.asset \in Assets) =>
        /\ CurrentStage(wf_ret.asset) = "exported"
        /\ wf_ret.out = "success"
        /\ wf_ret.value =
               [i \in 1..(Len(STAGE_ORDER) - StageIndex(wf_ret.before) - 1) |->
                   STAGE_ORDER[StageIndex(wf_ret.before) + i]]

\* C15: every transition approve, advance or skip_to_export performs is
\* followed by a hub broadcast that carries the asset's new stage, and the
\* operation then returns its success result.
C15_TransitionBroadcasts ==
    (/\ wf_ret.op \in {"approve", "advance", "skip_to_export"}
     /\ wf_ret.asset \in Assets
     /\ wf_ret.out # "failure"
     /\ ~(wf_ret.op = "approve" /\ wf_ret.before = "exported")) =>
        /\ wf_ret.out = "success"
        /\ wf_sent = <<wf_ret.asset, CurrentStage(wf_ret.asset)>>

\* `pl_ret.tick` flips with every PipelineService call, so a step that
\* changes it is such a call and pl_ret' describes it; pl_ret'.prev and
\* pl_ret'.prev2 are the service calls before it.

\* C16: round trip.  After prepare("mesh") then prepare("texture") the
\* shape slot is unloaded and the texture slot loaded, and a prepare("mesh")
\* that follows makes the shape slot loaded again and the texture slot not
\* loaded, residency being what get_status() reports.
C16_RoundTrip ==
    [][(pl_ret'.tick # pl_ret.tick /\ pl_ret'.op = "prepare") =>
          /\ (pl_ret'.stage = "texture" /\ pl_ret'.prev = "mesh") =>
                 Loaded' = {"texture"}
          /\ (pl_ret'.stage = "mesh" /\ pl_ret'.prev = "texture"
                  /\ pl_ret'.prev2 = "mesh") =>
                 Loaded' = {"shape"}]_vars

\* C17: in every reachable state, the hand-over inside generate() and
\* failed evictions included, the shape and the texture slot are never both
\* loaded.
C17_MutualExclusion == ~(ShapeLoaded /\ TextureLoaded)

\* C18: when prepare(stage) returns, the loaded set is the stage's required
\* set: the shape slot alone for "mesh", the texture slot alone for
\* "texture", no slot for "rigging" and "export"; after unload_all no slot
\* is loaded.
C18_RequiredSetLoaded ==
    [][(pl_ret'.tick # pl_ret.tick) =>
          /\ (pl_ret'.op = "prepare" /\ pl_ret'.stage = "mesh") => Loaded' = {"shape"}
          /\ (pl_ret'.op = "prepare" /\ pl_ret'.stage = "texture") =>
                 Loaded' = {"texture"}
          /\ (pl_ret'.op = "prepare" /\ pl_ret'.stage \in {"rigging", "export"}) =>
                 Loaded' = {}
          /\ (pl_ret'.op = "unload_all") => Loaded' = {}]_vars

\* C19: prepare("mesh") called twice in a row: the second call runs no
\* unload code and loads nothing, leaves every slot's residency as it was
\* and reports no freed memory.
C19_PrepareIdempotent ==
    [][(/\ pl_ret'.tick # pl_ret.tick
        /\ pl_ret'.op = "prepare" /\ pl_ret'.stage = "mesh"
        /\ pl_ret.op = "prepare" /\ pl_ret.stage = "mesh") =>
          /\ pl_ret'.evicted = {}
          /\ pl_ret'.loaded = {}
          /\ Loaded' = Loaded
          /\ pl_ret'.freed_gb = 0]_vars

\* C20: prepare_for_stage never raises: for every stage name, and whatever
\* fails while it unloads or loads, it returns a result dict; for a stage
\* name it does not know the dict reports failure and no slot's residency
\* changes.
C20_PrepareNeverRaises ==
    [][(pl_ret'.tick # pl_ret.tick /\ pl_ret'.op = "prepare") =>
          /\ ~pl_ret'.raised
          /\ (pl_ret'.stage \notin {"mesh", "texture", "rigging", "export"}) =>
                 /\ ~pl_ret'.success
                 /\ UNCHANGED <<shape_pipeline, texture_pipeline>>]_vars

\* an unknown stage name was refused, with a failure dict and without a
\* raise, while the texture pipeline was loaded and right after a prepare
\* for "mesh" or "rigging"
C20_Witness ==
    /\ pl_ret.op = "prepare"
    /\ pl_ret.stage = "bogus"
    /\ pl_ret.prev \in {"mesh", "rigging"}
    /\ ~pl_ret.raised
    /\ ~pl_ret.success
    /\ TextureLoaded

\* C22: residency changes are serialized.  While generate() has the shape
\* pipeline in use (the executor runs _generate_shape) no PipelineService
\* call runs its unload code for the shape slot, and while it has the
\* texture pipeline in use (the executor runs _generate_texture) none runs
\* its unload code for the texture slot.
C22_ResidencySerialized ==
    [][(pl_ret'.tick # pl_ret.tick) =>
          /\ (gen_pc = "shape") => "shape" \notin pl_ret'.evicted
          /\ (gen_pc = "texture") => "texture" \notin pl_ret'.evicted]_vars

\* C26: stop() on a running worker returns.  Its first part can run
\* whatever the loops wait for and its second part whatever the main loop
\* waits for (an empty queue, the hand-off channel, a handler).  When it
\* has returned both loops have ended, the worker is not running and the
\* pipeline holds no model and is not initialized; a second stop() changes
\* nothing of the worker, the queue or the pipeline.
C26_StopReturns ==
    [][/\ (running /\ stop_ret = None) => ENABLED (StopPre \/ StopProc)
       /\ (~running /\ stop_ret = None) => ENABLED StopProc
       /\ (stop_ret' # None) =>
             /\ ~running'
             /\ pre_pc' \in {"off", "done"}
             /\ proc_pc' = "done"
             /\ shape_pipeline' = None
             /\ texture_pipeline' = None
             /\ ~initialized'
       /\ (stop_ret' = "noop" /\ stop_ret # "noop") =>
             UNCHANGED <<qvars, overlap, running, pre_pc, pre_job, handoff,
                         proc_pc, proc_job, hvars, fvars, pvars>>]_vars

\* stop() was called twice on a worker whose main loop had a handler in
\* flight, whose preparation loop held a job and whose hand-off channel
\* held another
C26_Witness ==
    /\ stop_ret = "noop"
    /\ proc_job # NoJob
    /\ pre_job # NoJob
    /\ handoff # <<>>
    /\ ~running

\* C21: prepare before the handler.  The step in which the main loop
\* takes an image_to_3d job and routes it to its handler, which generates
\* on the GPU, includes a PipelineService.prepare_for_stage call for the
\* mesh stage.
C21_PrepareBeforeHandler ==
    [][(/\ proc_pc # "run"
        /\ proc_pc' = "run"
        /\ jobs'[proc_job'].payload.job_type = "image_to_3d") =>
          /\ pl_ret'.tick # pl_ret.tick
          /\ pl_ret'.op = "prepare"
          /\ pl_ret'.stage = "mesh"]_vars

\* C23: a preparation failure is isolated.  A job whose preparation failed
\* is Failed with the preprocessing error, the last message of that
\* iteration is its failed progress message, and the preparation loop goes
\* on: while the worker runs after such a failure the loop is never inside a
\* dequeue() that holds a later job it took from the queue and cannot
\* return it.
C23_PrepFailureIsolated ==
    /\ \A j \in Registered :
           jobs[j].error \in {PreprocessingFailed, NoImagePath} =>
               jobs[j].status = "failed"
    /\ (pre_pc = "sleep") =>
           /\ pre_sent # <<>>
           /\ pre_sent[Len(pre_sent)][1] = "progress"
           /\ pre_sent[Len(pre_sent)][3] = "failed"
           /\ jobs[pre_sent[Len(pre_sent)][2]].status = "failed"
    /\ (/\ running
        /\ \E j \in Registered : jobs[j].error \in {PreprocessingFailed, NoImagePath}) =>
           ~(pre_pc = "dequeue" /\ dq_pc = "stuck" /\ dq_job # NoJob)

\* C24: a handler failure fails the job.  When the main loop has sent the
\* failed progress message for a job, because its handler raised or
\* returned a failure result, that job is Failed, and the loop is at the end
\* of its iteration, about to go on.
C24_HandlerFailureFailsJob ==
    (proc_pc = "sent") =>
        \A i \in DOMAIN proc_sent :
            (proc_sent[i][1] = "progress" /\ proc_sent[i][3] = "failed") =>
                jobs[proc_sent[i][2]].status = "failed"

\* C25: queue status after every terminal job.  When a loop of the worker
\* has finished its iteration for a job it completed or failed (the main
\* loop after a handler's success or failure, the preparation loop after a
\* preparation failure), the messages it sent have the job's terminal
\* progress message followed by a queue_status message.
C25_QueueStatusFollows ==
    \A sent \in (IF proc_pc = "sent" THEN {proc_sent} ELSE {}) \cup
                (IF pre_pc = "sleep" THEN {pre_sent} ELSE {}) :
        \E i, k \in DOMAIN sent :
            /\ i < k
            /\ sent[i][1] = "progress"
            /\ sent[i][3] \in {"completed", "failed"}
            /\ sent[k] = QueueStatus

\* C27: every job with a handler reaches it.  A job whose type has a
\* handler (image_to_3d, text_to_3d, rig_asset) is never failed as a job of
\* unknown type, nor failed in preparation for the image path its payload
\* does not have, with the overlap or without it.
C27_HandlerTypesDispatched ==
    \A j \in Registered :
        JobType(j) \in HandlerTypes =>
            jobs[j].error \notin {UnknownJobType, NoImagePath}

\* C28: at most one job ahead.  With the overlap enabled and the worker
\* running, at most one job is Processing without being the job whose
\* handler the main loop is running.
C28_AtMostOneAhead ==
    (overlap /\ running) =>
        Cardinality(Processing \ (IF proc_pc = "run" THEN {proc_job} ELSE {})) <= 1

\* C29: the hand-off channel.  It never holds more than its capacity; a
\* preparation loop suspended at the put still holds its prepared job, which
\* is Processing and not in the channel; the channel holds Processing jobs,
\* each once; and while the worker runs the jobs in the channel get
\* consumed: the main loop is never running a handler whose completion has
\* to wait for a queue lock that a dequeue() holds for good.
C29_HandoffBoundedConsumed ==
    /\ Len(handoff) <= HandoffCap
    /\ (pre_pc = "put") =>
           /\ pre_job \in Processing
           /\ \A i \in DOMAIN handoff : handoff[i] # pre_job
    /\ \A i, k \in DOMAIN handoff :
           /\ handoff[i] \in Processing
           /\ (i # k) => handoff[i] # handoff[k]
    /\ (running /\ handoff # <<>> /\ proc_pc = "run") =>
           ~(locked /\ dq_pc \in {"retry", "stuck"})

\* C30: no job stays Processing.  When stop() has returned, both loops
\* having ended, no job is Processing: the job whose handler was running
\* and the jobs that waited in the hand-off channel or in preparation have
\* become Completed or Failed.
C30_NoJobLeftProcessing ==
    (stop_ret # None) => Processing = {}

\* C31: a successful job is Completed, once.  When the main loop ends an
\* iteration for a job whose handler returned success, the job is Completed
\* with its result, the loop has sent one "completed" progress message and
\* one asset_ready message for it and no "failed" message; complete() has
\* run once for every job the worker finished; and a job that is Completed
\* with a result keeps its status, result and error in every later step.
C31_SuccessCompletesOnce ==
    [][/\ (/\ proc_pc' = "sent" /\ proc_pc = "run"
           /\ \E i \in DOMAIN proc_sent' :
                  proc_sent'[i] = Progress(proc_job, "completed")) =>
             /\ jobs'[proc_job].status = "completed"
             /\ jobs'[proc_job].result # None
             /\ jobs'[proc_job].error = None
             /\ Cardinality({i \in DOMAIN proc_sent' :
                    proc_sent'[i] = Progress(proc_job, "completed")}) = 1
             /\ Cardinality({i \in DOMAIN proc_sent' :
                    proc_sent'[i] = AssetReady(proc_job)}) = 1
             /\ \A i \in DOMAIN proc_sent' : proc_sent'[i][3] # "failed"
       /\ completed_count' + failed_count' =
             Cardinality({j \in DOMAIN jobs' : jobs'[j].status \in {"completed", "failed"}})
       /\ \A j \in Registered :
             (jobs[j].status = "completed" /\ jobs[j].result # None) =>
                 /\ jobs'[j].status = "completed"
                 /\ jobs'[j].result = jobs[j].result
                 /\ jobs'[j].error = None]_vars

\* the worker completed one job with its result and went on to fail another
C31_Witness ==
    /\ proc_pc = "sent"
    /\ \E j, k \in Registered :
           /\ jobs[j].status = "completed"
           /\ jobs[j].result # None
           /\ jobs[k].status = "failed"
           /\ proc_sent[2] = Progress(k, "failed")

\* C32: one job at a time without the overlap.  With the overlap disabled
\* at most one job is Processing, it is the queue's current job, and a job
\* becomes Processing only in a state in which no job is.
C32_SequentialWithoutOverlap ==
    [][~overlap =>
          LET now == {j \in DOMAIN jobs' : jobs'[j].status = "processing"} IN
          /\ Cardinality(now) <= 1
          /\ \A j \in now : current_job' = j
          /\ (now \ Processing # {}) => Processing = {}]_vars

\* without the overlap the worker finished one job and has the next in its
\* handler
C32_Witness ==
    /\ ~overlap
    /\ proc_pc = "run"
    /\ Processing = {proc_job}
    /\ current_job = proc_job
    /\ \E j \in Registered : jobs[j].status \in {"completed", "failed"}

\* C33: a prepare_for_stage call for one of the four stages returns
\* success = TRUE with loaded_pipeline naming the stage's slot ("shape" for
\* "mesh", "texture" for "texture", None for "rigging" and "export") and
\* freed_gb no less than zero, the residency status having been broadcast.
C33_PrepareReportsSuccess ==
    [][(/\ pl_ret'.tick # pl_ret.tick
        /\ pl_ret'.op = "prepare"
        /\ pl_ret'.stage \in {"mesh", "texture", "rigging", "export"}) =>
          /\ pl_ret'.success
          /\ pl_ret'.freed_gb >= 0
          /\ pl_ret'.loaded_pipeline =
                 CASE pl_ret'.stage = "mesh" -> "shape"
                   [] pl_ret'.stage = "texture" -> "texture"
                   [] OTHER -> None]_vars

\* C34: the current-job pointer agrees with the job statuses: current_job
\* names a job exactly when some registered job is Processing, and the job
\* it names is Processing.
C34_CurrentJobAgrees ==
    /\ (current_job # NoJob) <=> (Processing # {})
    /\ (current_job # NoJob) => current_job \in Processing

\* C35: enqueue is atomic with respect to the registry and the priority
\* structure: every job registered with status Pending is in the priority
\* structure, where a dequeue finds it, also while an enqueue is suspended.
C35_PendingInStructure ==
    \A j \in Registered :
        jobs[j].status = "pending" => \E i \in DOMAIN heap : heap[i] = j

\* C36: a dequeue call that ends cancelled (it returns None) removes no job:
\* every job that was Pending when it was cancelled, the job the call had
\* popped included, is Pending afterwards and where a later dequeue gets it
\* (in the priority structure or in a put that waits for room).
C36_CancelledDequeueKeepsJobs ==
    [][(/\ dq_pc \in {"call", "retry", "stuck"}
        /\ ret'.op = "dequeue" /\ ret'.out = "None") =>
          \A j \in Registered :
              jobs[j].status = "pending" =>
                  /\ jobs'[j].status = "pending"
                  /\ \/ \E i \in DOMAIN heap' : heap'[i] = j
                     \/ \E i \in DOMAIN putters' : putters'[i] = j
                     \/ j \in put_ready']_vars

\* C37: once a job is Completed, Failed or Cancelled its progress, stage,
\* result and error no longer change, whatever is delivered afterwards: a
\* progress update that arrives after complete() leaves the job as it is.
C37_TerminalJobFrozen ==
    [][\A j \in Registered :
           jobs[j].status \in {"completed", "failed", "cancelled"} =>
               /\ jobs'[j].progress = jobs[j].progress
               /\ jobs'[j].stage = jobs[j].stage
               /\ jobs'[j].result = jobs[j].result
               /\ jobs'[j].error = jobs[j].error]_vars

\* C38: the worker reports is_running only when its main loop task was
\* created: a start() that fails in an initializer leaves is_running false,
\* so that a later start() runs the initializers again.
C38_RunningHasMainLoop == running => proc_pc # "off"

====
